---- MODULE Spec2Model ----
(***************************************************************************)
(* Retrieval-and-answer pipeline of the IT-support chatbot:                *)
(*   app/api/routes/query.py        build_metadata_filter, query_documents *)
(*   app/services/langgraph_rag.py  LangGraphRAGService                    *)
(*   app/services/hybrid_search.py  HybridSearchService                    *)
(*   app/services/vectorstore.py    VectorStoreService.search              *)
(* Scores are fixed-point numbers: 1000 stands for 1.0.  Texts are         *)
(* sequences of words.                                                     *)
(***************************************************************************)
EXTENDS Integers, Sequences, FiniteSets, TLC

\* ------------------------------------------------------------------------
\* Program constants
\* ------------------------------------------------------------------------
One == 1000
rag_top_k == 3
rag_similarity_threshold == 600
FaqRatioNum == 6
FaqBoost == 150
vector_weight == 700
bm25_weight == 300
KeywordBoost == 150
CategoryBoost == 100
PlatformBoost == 50
\* The tolerance 0.001 on the sum of the weights.
WeightTolerance == 1
\* Default of settings.chat_max_messages.
chat_max_messages == 10

\* Bound of the model: invocations started on the service in one behaviour.
MaxRuns == 2

Tasks == {"t1", "t2"}
\* Task of the specification without concurrency.
SeqTasks == {"t1"}

\* ------------------------------------------------------------------------
\* Generic helpers on sequences
\* ------------------------------------------------------------------------
RECURSIVE SeqSum(_)
SeqSum(s) == IF s = <<>> THEN 0 ELSE Head(s) + SeqSum(Tail(s))

RECURSIVE SeqMax(_)
SeqMax(s) == IF Len(s) = 1 THEN s[1]
             ELSE LET m == SeqMax(Tail(s)) IN IF s[1] >= m THEN s[1] ELSE m

RECURSIVE SeqMin(_)
SeqMin(s) == IF Len(s) = 1 THEN s[1]
             ELSE LET m == SeqMin(Tail(s)) IN IF s[1] <= m THEN s[1] ELSE m

Min2(a, b) == IF a <= b THEN a ELSE b

\* A Python assignment `x = value` followed by the statements Body that
\* read x: value is computed once and Body sees the result.
Bind(value, Body(_)) == CHOOSE result \in {Body(x) : x \in {value}} : TRUE

Range(s) == {s[i] : i \in 1..Len(s)}

\* Python `needle in haystack` on texts: needle occurs as a contiguous run.
Contains(hay, needle) ==
    \E i \in 0..(Len(hay) - Len(needle)) :
        \A j \in 1..Len(needle) : hay[i + j] = needle[j]

\* Variant of the sort that reverses the list sorted ascending: elements
\* with equal keys come out in reverse order.
SortedDescPerm_TiesReversed(keys) ==
    LET n == Len(keys)
        Before(i, j) == keys[i] > keys[j] \/ (keys[i] = keys[j] /\ i > j)
        Rank(i) == Cardinality({j \in 1..n : Before(j, i)}) + 1
    IN  [p \in 1..n |-> CHOOSE i \in 1..n : Rank(i) = p]

\* Python sorted(..., key=key, reverse=True): stable, descending by key.
\* perm lists the indices of s in output order.
SortedDescPerm(keys) ==
    LET n == Len(keys)
        Before(i, j) == keys[i] > keys[j] \/ (keys[i] = keys[j] /\ i < j)
        Rank(i) == Cardinality({j \in 1..n : Before(j, i)}) + 1
    IN  [p \in 1..n |-> CHOOSE i \in 1..n : Rank(i) = p]

Permute(s, perm) == [p \in 1..Len(s) |-> s[perm[p]]]

\* ------------------------------------------------------------------------
\* Texts
\* ------------------------------------------------------------------------
\* str.lower() on the words of the model.
LowerWord(w) ==
    CASE w = "No"  -> "no"
      [] w = "VPN" -> "vpn"
      [] w = "Halo" -> "halo"
      [] OTHER -> w

Lower(text) == [i \in 1..Len(text) |-> LowerWord(text[i])]

\* The phrase generate() looks for in the tool output.
NoRelevantPhrase == <<"No", "relevant", "documents", "found">>

\* Return texts of the retrieve tool.
NoDocsToolText == <<"No", "relevant", "documents", "found", "in", "knowledge", "base", ".">>
LowSimToolText == <<"No", "sufficiently", "relevant", "documents", "found", ".",
                    "Maximum", "similarity", "score", "is", "below", "threshold", ".">>
StudentRejection == <<"Informasi ini khusus Dosen. Hubungi dosen Anda jika perlu akses.">>
LecturerRejection == <<"Informasi ini khusus Administrator sistem.">>
AnonymousRejection == <<"Akses ditolak. Login diperlukan untuk mengakses informasi ini.">>
FallbackRejection == <<"Akses ditolak.">>
ErrorToolText == <<"Error", "retrieving", "documents">>

\* app/services/prompts.py
get_greeting_response == <<"Halo! Saya asisten IT support yang siap membantu Anda.">>
get_no_documents_response ==
    <<"Maaf, saya tidak memiliki informasi tentang itu dalam knowledge base saya.">>

\* Answers of /query for its rejections.
RouteAccessDenied == <<"Maaf, pertanyaan Anda memerlukan akses ke data internal.">>
RouteNoDocs == <<"Maaf, saya tidak menemukan informasi yang relevan.">>
RouteLowSim == <<"Maaf, saya tidak menemukan informasi yang cukup relevan.">>

\* Text written by the generative model (opaque).
LLMText == <<"model-written answer">>

\* ------------------------------------------------------------------------
\* Callers and visibility filters
\* ------------------------------------------------------------------------
UserRole == {"SUPER_ADMIN", "ADMIN", "LECTURER", "STUDENT"}
Anonymous == "anonymous"
Callers == {Anonymous} \cup UserRole

Sensitivities == {"public", "internal", "confidential"}

NoFilter == [kind |-> "none", vals |-> {}]
PublicFilter == [kind |-> "eq", vals |-> {"public"}]
PublicInternalFilter == [kind |-> "in", vals |-> {"public", "internal"}]
Filters == {NoFilter, PublicFilter, PublicInternalFilter}

build_metadata_filter(user) ==
    IF user = Anonymous THEN PublicFilter
    ELSE IF user = "ADMIN" THEN NoFilter
    ELSE IF user = "LECTURER" THEN PublicInternalFilter
    ELSE PublicFilter

\* Metadata filter of the vector index: no filter admits every document,
\* an equality or $in filter admits the listed sensitivity values.
FilterPasses(filter, sens) ==
    filter.kind = "none" \/ sens \in filter.vals

_detect_user_role(filter) ==
    IF filter.kind = "none" THEN "admin"
    ELSE IF filter = PublicFilter THEN "student"
    ELSE IF filter.kind = "in" THEN "lecturer"
    ELSE "anonymous"

\* ------------------------------------------------------------------------
\* Documents of the vector index
\* ------------------------------------------------------------------------
\* score: cosine similarity of the summary to the question (fixed point);
\* faq, keywords, category, platform, source_link: optional metadata
\* ("" = absent).
Doc(name, sens, score, content, faq, keywords, category, platform, source_link) ==
    [name |-> name, sens |-> sens, score |-> score, content |-> content,
     faq |-> faq, keywords |-> keywords, category |-> category,
     platform |-> platform, source_link |-> source_link, faq_boosted |-> FALSE]

VpnPublic == Doc("vpn_public", "public", 900, <<"install", "vpn", "client">>,
                 <<>>, <<>>, "", "", "https://kb/vpn")
WifiPublic == Doc("wifi_public", "public", 400, <<"wifi", "setup">>,
                  <<>>, <<>>, "", "", "https://kb/wifi")
MailPublic == Doc("mail_public", "public", 500, <<"mail", "vpn">>,
                  <<>>, <<>>, "", "", "https://kb/vpn")
FaqPublic == Doc("faq_public", "public", 500, <<"vpn", "faq">>,
                 << <<"install", "vpn">> >>, <<"vpn">>, "network", "", "")
QuotePublic == Doc("quote_public", "public", 900,
                   <<"log", "says", "No", "relevant", "documents", "found">>,
                   <<>>, <<>>, "", "", "")
VpnInternal == Doc("vpn_internal", "internal", 900, <<"install", "vpn", "server">>,
                   <<>>, <<>>, "", "", "https://kb/internal")
KeysConfidential == Doc("keys_confidential", "confidential", 800, <<"vpn", "keys">>,
                        <<>>, <<>>, "", "", "")

\* The indexes the model is run on.
Corpora ==
    { <<>>,
      <<VpnPublic, WifiPublic>>,
      <<MailPublic, WifiPublic>>,
      <<MailPublic>>,
      <<FaqPublic, WifiPublic>>,
      <<QuotePublic>>,
      <<VpnInternal>>,
      <<KeysConfidential>>,
      <<VpnPublic, VpnInternal, KeysConfidential, WifiPublic>> }

\* Questions (text of the user message) and tool queries.
QVpn == <<"install", "vpn">>
QHalo == <<"Halo", "!">>
Questions == {QVpn, QHalo}
\* Queries the model passes to the retrieve tool.
ToolQueries == {QVpn}

\* ------------------------------------------------------------------------
\* VectorStoreService.search
\* ------------------------------------------------------------------------
RECURSIVE SelectDocs(_, _)
SelectDocs(docs, filter) ==
    IF docs = <<>> THEN <<>>
    ELSE IF FilterPasses(filter, Head(docs).sens)
         THEN <<Head(docs)>> \o SelectDocs(Tail(docs), filter)
         ELSE SelectDocs(Tail(docs), filter)

\* similarity_search_with_score: the k nearest admitted documents, nearest
\* first, each with its score.
NearestFirst(hits) ==
    Permute(hits, SortedDescPerm([i \in 1..Len(hits) |-> hits[i].score]))

FirstK(ranked, k) == SubSeq(ranked, 1, Min2(k, Len(ranked)))

similarity_search(index, k, filter) ==
    Bind(SelectDocs(index, filter), LAMBDA hits : FirstK(NearestFirst(hits), k))

\* search(query, k, metadata_filter, return_metadata, include_scores):
\* with return_metadata the result is the pair (retrieved_docs, summary_docs),
\* without it the bare list retrieved_docs.
SearchResult(return_metadata, summary_docs) ==
    [is_pair |-> return_metadata, retrieved_docs |-> summary_docs,
     summary_docs |-> summary_docs]

search(index, k, filter, return_metadata) ==
    Bind(similarity_search(index, k, filter),
         LAMBDA summary_docs : SearchResult(return_metadata, summary_docs))

\* Python `a, b = value`: a pair unpacks; a list unpacks only if it has
\* exactly two elements, otherwise ValueError.
UnpackOk(result) == result.is_pair \/ Len(result.retrieved_docs) = 2

UnpackFirst(result) ==
    IF result.is_pair THEN result.retrieved_docs ELSE <<result.retrieved_docs[1]>>

\* ------------------------------------------------------------------------
\* HybridSearchService
\* ------------------------------------------------------------------------
_tokenize(text) == Lower(text)

Count(text, w) == Cardinality({i \in 1..Len(text) : text[i] = w})

\* 1000 * ln((N - df + 0.5) / (df + 0.5) + 1.0) for N <= rag_top_k.
IdfTable(N, df) ==
    CASE N = 1 /\ df = 0 -> 1386
      [] N = 1 /\ df = 1 -> 288
      [] N = 2 /\ df = 0 -> 1792
      [] N = 2 /\ df = 1 -> 693
      [] N = 2 /\ df = 2 -> 182
      [] N = 3 /\ df = 0 -> 2079
      [] N = 3 /\ df = 1 -> 981
      [] N = 3 /\ df = 2 -> 470
      [] N = 3 /\ df = 3 -> 134
      [] OTHER -> 0

\* Okapi BM25 with k1 = 1.5 and b = 0.75.  With avgdl = total / N the term
\* freq * (k1 + 1) / (freq + k1 * (1 - b + b * len / avgdl)) equals
\* 20 * freq * total / (8 * freq * total + 3 * total + 9 * len * N).
Bm25Term(idf, freq, doc_len, total, N) ==
    IF freq = 0 THEN 0
    ELSE (idf * 20 * freq * total)
         \div (8 * freq * total + 3 * total + 9 * doc_len * N)

DocFrequency(doc_tokens_list, tok) ==
    Cardinality({d \in 1..Len(doc_tokens_list) : Count(doc_tokens_list[d], tok) > 0})

Bm25Scores(query_tokens, doc_tokens_list, total) ==
    [d \in 1..Len(doc_tokens_list) |->
        SeqSum([t \in 1..Len(query_tokens) |->
            Bm25Term(IdfTable(Len(doc_tokens_list),
                              DocFrequency(doc_tokens_list, query_tokens[t])),
                     Count(doc_tokens_list[d], query_tokens[t]),
                     Len(doc_tokens_list[d]), total, Len(doc_tokens_list))])]

TotalLength(doc_tokens_list) ==
    SeqSum([d \in 1..Len(doc_tokens_list) |-> Len(doc_tokens_list[d])])

Bm25OfTokens(query_tokens, doc_tokens_list) ==
    Bind(TotalLength(doc_tokens_list),
         LAMBDA total : Bm25Scores(query_tokens, doc_tokens_list, total))

_compute_bm25_scores(query, documents) ==
    IF documents = <<>> THEN <<>>
    ELSE Bind([d \in 1..Len(documents) |-> _tokenize(documents[d].content)],
              LAMBDA doc_tokens_list : Bm25OfTokens(_tokenize(query), doc_tokens_list))

MinMaxScale(scores, min_score, max_score) ==
    IF max_score = min_score
    THEN [i \in 1..Len(scores) |-> One]
    ELSE [i \in 1..Len(scores) |->
             ((scores[i] - min_score) * One) \div (max_score - min_score)]

\* Variant that passes the scores through unscaled.
_normalize_scores_Unscaled(scores) == scores

_normalize_scores(scores) ==
    IF scores = <<>> THEN <<>>
    ELSE MinMaxScale(scores, SeqMin(scores), SeqMax(scores))

Abs(x) == IF x < 0 THEN -x ELSE x

\* a / b for b # 0, rounded to the nearest unit.
Quotient(a, b) ==
    IF (a >= 0) = (b > 0)
    THEN (2 * Abs(a) + Abs(b)) \div (2 * Abs(b))
    ELSE -((2 * Abs(a) + Abs(b)) \div (2 * Abs(b)))

\* HybridSearchService.__init__: the weights the service keeps.  raised: the
\* division by total_weight = 0 raised ZeroDivisionError.
HybridSearchService__init__(vw, bw) ==
    IF Abs(vw + bw - One) > WeightTolerance
    THEN IF vw + bw = 0
         THEN [raised |-> TRUE, vector_weight |-> vw, bm25_weight |-> bw]
         ELSE [raised |-> FALSE,
               vector_weight |-> Quotient(vw * One, vw + bw),
               bm25_weight |-> Quotient(bw * One, vw + bw)]
    ELSE [raised |-> FALSE, vector_weight |-> vw, bm25_weight |-> bw]

\* Weighted combination of the two normalised series.
WeightedScores(weights, normalized_vector, normalized_bm25) ==
    [i \in 1..Len(normalized_vector) |->
        (weights.vector_weight * normalized_vector[i]
         + weights.bm25_weight * normalized_bm25[i]) \div One]

HybridScores(normalized_vector, normalized_bm25) ==
    WeightedScores(HybridSearchService__init__(vector_weight, bm25_weight),
                   normalized_vector, normalized_bm25)

\* sorted(zip(documents, scores), key=score, reverse=True), unzipped.
ApplyPerm(documents, scores, perm) ==
    [docs |-> Permute(documents, perm), scores |-> Permute(scores, perm)]

SortByScore(documents, scores) ==
    Bind(SortedDescPerm(scores), LAMBDA perm : ApplyPerm(documents, scores, perm))

\* Result: [docs, scores], documents ordered by hybrid score.
NormalizedBm25(query, documents) ==
    Bind(_compute_bm25_scores(query, documents),
         LAMBDA bm25_scores : _normalize_scores(bm25_scores))

HybridOf(query, documents, vector_scores) ==
    Bind(_normalize_scores(vector_scores), LAMBDA normalized_vector :
        Bind(NormalizedBm25(query, documents), LAMBDA normalized_bm25 :
            HybridScores(normalized_vector, normalized_bm25)))

rerank_with_keywords(query, documents, vector_scores) ==
    IF documents = <<>> THEN [docs |-> documents, scores |-> vector_scores]
    ELSE Bind(HybridOf(query, documents, vector_scores),
              LAMBDA hybrid_scores : SortByScore(documents, hybrid_scores))

KeywordMatches(query_lower, keywords) ==
    Cardinality({i \in 1..Len(keywords) :
                    Contains(query_lower, <<LowerWord(keywords[i])>>)})

\* Variant of the keyword boost that does not count the matches.
AddKeywordBoost_Once(score, keyword_matches) ==
    IF keyword_matches > 0
    THEN Min2(score + KeywordBoost, One) ELSE score

AddKeywordBoost(score, keyword_matches) ==
    IF keyword_matches > 0
    THEN Min2(score + KeywordBoost * keyword_matches, One) ELSE score

AddFieldBoost(score, query_lower, field, boost) ==
    IF field # "" /\ Contains(query_lower, <<LowerWord(field)>>)
    THEN Min2(score + boost, One) ELSE score

BoostedScore(query_lower, doc, score) ==
    AddFieldBoost(
        AddFieldBoost(
            AddKeywordBoost(score, KeywordMatches(query_lower, doc.keywords)),
            query_lower, doc.category, CategoryBoost),
        query_lower, doc.platform, PlatformBoost)

BoostedScores(query_lower, documents, scores) ==
    [i \in 1..Len(documents) |-> BoostedScore(query_lower, documents[i], scores[i])]

boost_by_metadata(query, documents, scores) ==
    Bind(BoostedScores(Lower(query), documents, scores),
         LAMBDA boosted_scores : SortByScore(documents, boosted_scores))

\* ------------------------------------------------------------------------
\* The retrieve tool of LangGraphRAGService
\* ------------------------------------------------------------------------
\* FAQ boost of one document (langgraph_rag.py, retrieve).
OverlapAbove(query_words, faq_words) ==
    10 * Cardinality(query_words \cap faq_words)
        > FaqRatioNum * (IF Cardinality(query_words) > 1
                         THEN Cardinality(query_words) ELSE 1)

FaqMatches(query, faq) == OverlapAbove(Range(Lower(query)), Range(Lower(faq)))

\* Variant of the FAQ loop without the break: every matching FAQ adds the
\* boost.
FaqBoostDoc_EveryFaq(query, doc) ==
    LET matching == Cardinality({i \in 1..Len(doc.faq) : FaqMatches(query, doc.faq[i])})
    IN  IF matching > 0
        THEN [doc EXCEPT !.score = Min2(doc.score + FaqBoost * matching, One),
                         !.faq_boosted = TRUE]
        ELSE doc

FaqBoostDoc(query, doc) ==
    IF \E i \in 1..Len(doc.faq) : FaqMatches(query, doc.faq[i])
    THEN [doc EXCEPT !.score = Min2(doc.score + FaqBoost, One), !.faq_boosted = TRUE]
    ELSE doc

\* self._retrieved_metadata; present = FALSE is the empty dict, "" and -1
\* stand for absent keys.
EmptyMetadata ==
    [present |-> FALSE, num_documents_retrieved |-> 0, retrieved_documents |-> <<>>,
     similarity_scores |-> <<>>, rejection_reason |-> "", user_role |-> "",
     required_role |-> "", max_similarity_score |-> -1]

\* Role table of _check_authorization_restrictions.
RejectionFor(current_role) ==
    CASE current_role = "student" ->
             [message |-> StudentRejection, required_role |-> "lecturer"]
      [] current_role = "lecturer" ->
             [message |-> LecturerRejection, required_role |-> "admin"]
      [] current_role = "anonymous" ->
             [message |-> AnonymousRejection, required_role |-> "authenticated"]
      [] OTHER ->
             [message |-> FallbackRejection, required_role |-> "unknown"]

\* Metadata stored with a rejection for lack of permission.
RejectionMetadata(current_role) ==
    [EmptyMetadata EXCEPT
        !.present = TRUE,
        !.rejection_reason = "insufficient_permissions",
        !.user_role = current_role,
        !.required_role = RejectionFor(current_role).required_role]

\* Result: denied (a rejection tuple is returned), probe (the unrestricted
\* search was issued), message, metadata (the value stored when denied).
NoRestriction ==
    [denied |-> FALSE, probe |-> FALSE, message |-> <<>>, metadata |-> EmptyMetadata]

\* What follows the probe search: its value is unpacked into two names.
AfterProbe(result, current_role) ==
    IF UnpackOk(result) /\ UnpackFirst(result) # <<>>
    THEN [denied |-> TRUE, probe |-> TRUE,
          message |-> RejectionFor(current_role).message,
          metadata |-> RejectionMetadata(current_role)]
    ELSE [NoRestriction EXCEPT !.probe = TRUE]

_check_authorization_restrictions(index, retrieved_docs, current_filter) ==
    IF retrieved_docs # <<>> \/ current_filter = NoFilter THEN NoRestriction
    ELSE Bind(search(index, 1, NoFilter, FALSE),
              LAMBDA result : AfterProbe(result, _detect_user_role(current_filter)))

_extract_retrieval_metadata(summary_docs) ==
    [names |-> [i \in 1..Len(summary_docs) |-> summary_docs[i].name],
     similarity_scores |-> [i \in 1..Len(summary_docs) |-> summary_docs[i].score]]

\* TRUE when the rejection tuple is returned.
_validate_similarity_threshold(similarity_scores) ==
    /\ similarity_scores # <<>>
    /\ SeqMax(similarity_scores) < rag_similarity_threshold

RECURSIVE _serialize_documents(_)
_serialize_documents(summary_docs) ==
    IF summary_docs = <<>> THEN <<>>
    ELSE LET d == Head(summary_docs)
             one == <<"Source:", d.name, "Content:">> \o d.content
         IN  IF Len(summary_docs) = 1 THEN one
             ELSE one \o <<"\n\n">> \o _serialize_documents(Tail(summary_docs))

\* FAQ boost of every document, then the re-sort by boosted score.
FaqBoostAll(query, summary_docs) ==
    [i \in 1..Len(summary_docs) |-> FaqBoostDoc(query, summary_docs[i])]

Scores(docs) == [i \in 1..Len(docs) |-> docs[i].score]

SortDocsByScore(docs) ==
    Bind(SortedDescPerm(Scores(docs)), LAMBDA perm : Permute(docs, perm))

\* doc.metadata["similarity_score"] = score for the re-ranked documents.
WithScores(ranked) ==
    [i \in 1..Len(ranked.docs) |-> [ranked.docs[i] EXCEPT !.score = ranked.scores[i]]]

RerankAndBoost(query, reranked) ==
    Bind(boost_by_metadata(query, reranked.docs, reranked.scores),
         LAMBDA boosted : WithScores(boosted))

\* Hybrid re-ranking and metadata boost, when enabled.
ApplyHybrid(query, sorted_docs, hybrid_enabled) ==
    IF hybrid_enabled /\ sorted_docs # <<>>
    THEN Bind(rerank_with_keywords(query, sorted_docs, Scores(sorted_docs)),
              LAMBDA reranked : RerankAndBoost(query, reranked))
    ELSE sorted_docs

ToolReturn(ret, content, artifact, metadata, searches, vector_scores, raw_scores) ==
    [ret |-> ret, content |-> content, artifact |-> artifact, metadata |-> metadata,
     searches |-> searches, vector_scores |-> vector_scores, raw_scores |-> raw_scores]

\* The tool's outer except clause: VectorStoreService.search raised
\* VectorStoreError before any metadata was stored.
ErrorResult(current_filter) ==
    ToolReturn("error", ErrorToolText, <<>>, EmptyMetadata, <<current_filter>>,
               <<>>, <<>>)

\* Empty result: authorization check, else "no documents found".
EmptyResult(current_filter, auth_check) ==
    IF auth_check.denied
    THEN ToolReturn("insufficient_permissions", auth_check.message, <<>>,
                    auth_check.metadata, <<current_filter, NoFilter>>, <<>>, <<>>)
    ELSE ToolReturn("no_documents_found", NoDocsToolText, <<>>,
                    [EmptyMetadata EXCEPT !.present = TRUE,
                                          !.rejection_reason = "no_documents_found"],
                    IF auth_check.probe THEN <<current_filter, NoFilter>>
                                        ELSE <<current_filter>>,
                    <<>>, <<>>)

StoredMetadata(extracted) ==
    [EmptyMetadata EXCEPT
        !.present = TRUE,
        !.num_documents_retrieved = Len(extracted.names),
        !.retrieved_documents = extracted.names,
        !.similarity_scores = extracted.similarity_scores,
        !.max_similarity_score = SeqMax(extracted.similarity_scores)]

\* Non-empty result: metadata, threshold check, serialization.
FoundResult(current_filter, summary_docs, stored, vector_scores, raw_scores) ==
    IF _validate_similarity_threshold(stored.similarity_scores)
    THEN ToolReturn("low_similarity", LowSimToolText, <<>>,
                    [stored EXCEPT !.rejection_reason = "low_similarity"],
                    <<current_filter>>, vector_scores, raw_scores)
    ELSE ToolReturn("documents", _serialize_documents(summary_docs),
                    stored.retrieved_documents, stored,
                    <<current_filter>>, vector_scores, raw_scores)

Classify(index, current_filter, summary_docs, vector_scores, raw_scores) ==
    IF summary_docs = <<>>
    THEN Bind(_check_authorization_restrictions(index, summary_docs, current_filter),
              LAMBDA auth_check : EmptyResult(current_filter, auth_check))
    ELSE Bind(StoredMetadata(_extract_retrieval_metadata(summary_docs)),
              LAMBDA stored : FoundResult(current_filter, summary_docs, stored,
                                          vector_scores, raw_scores))

AfterFaqBoost(index, query, current_filter, hybrid_enabled, sorted_docs, raw_scores) ==
    Bind(ApplyHybrid(query, sorted_docs, hybrid_enabled), LAMBDA summary_docs :
        Classify(index, current_filter, summary_docs, Scores(sorted_docs), raw_scores))

FaqBoostAndSort(query, summary_docs) ==
    Bind(FaqBoostAll(query, summary_docs), LAMBDA boosted : SortDocsByScore(boosted))

AfterSearch(index, query, current_filter, hybrid_enabled, summary_docs) ==
    Bind(FaqBoostAndSort(query, summary_docs), LAMBDA sorted_docs :
        AfterFaqBoost(index, query, current_filter, hybrid_enabled,
                      sorted_docs, Scores(summary_docs)))

\* The tool body.  current_filter is self._current_metadata_filter as read
\* while the tool runs.  Result: ret names the return statement taken,
\* content and artifact are the returned pair, metadata the value left in
\* self._retrieved_metadata, searches the filters of the vector searches
\* issued, raw_scores the scores the filtered search returned, vector_scores
\* the similarity_score values before hybrid re-ranking.
retrieve(index, query, current_filter, hybrid_enabled) ==
    Bind(search(index, rag_top_k, current_filter, TRUE), LAMBDA found :
        AfterSearch(index, query, current_filter, hybrid_enabled, found.summary_docs))

\* ------------------------------------------------------------------------
\* Greeting detection (LangGraphRAGService._is_pure_greeting)
\* ------------------------------------------------------------------------
Punct == {",", "!", ".", "?"}
GreetWords == {"hai", "halo", "hello", "hi", "hey", "hallo", "haloo"}

obvious_greetings ==
    {<<w>> : w \in GreetWords}
    \cup {<<"terima", "kasih">>, <<"thank">>, <<"thanks">>, <<"thx">>, <<"thank", "you">>}
    \cup {<<"oke">>, <<"ok">>, <<"okay">>, <<"baik">>, <<"siap">>, <<"yes">>, <<"ya">>}
    \cup {<<"selamat", w>> : w \in {"pagi", "siang", "sore", "malam", "datang"}}
    \cup {<<"maaf">>, <<"sorry">>, <<"excuse", "me">>, <<"permisi">>, <<"pardon">>}

ContextPhrases ==
    {<<"apa", "kabar">>, <<"bagaimana", "kabar">>, <<"how", "are", "you">>, <<"what's", "up">>}

greeting_with_context ==
    {<<w>> \o c : w \in GreetWords, c \in ContextPhrases}
    \cup {<<w, ",">> \o c : w \in GreetWords, c \in ContextPhrases}
    \cup {<<"apa", "kabar">>, <<"how", "are", "you">>, <<"bagaimana", "kabar">>}
    \cup {<<"nice", "to", "meet", "you">>, <<"senang", "bertemu">>}

it_keywords ==
    {"install", "setup", "konfigurasi", "configure", "config", "setting",
     "error", "troubleshoot", "masalah", "problem", "issue", "bug",
     "vpn", "firewall", "wifi", "network", "jaringan", "internet",
     "software", "hardware", "aplikasi", "program", "sistem", "system",
     "cara", "kenapa", "mengapa", "eap", "tls", "ssl", "certificate",
     "sertifikat", "password", "login", "akses", "access", "user", "admin",
     "download", "upload", "file", "folder", "direktori", "server", "client",
     "database", "backup", "restore", "update", "upgrade", "patch",
     "security", "keamanan"}

IsPrefix(p, text) == Len(p) <= Len(text) /\ SubSeq(text, 1, Len(p)) = p

\* ^(phrase)[\s,!.?]*$ : the phrase followed by punctuation only.
MatchesAnchored(text, phrase) ==
    /\ IsPrefix(phrase, text)
    /\ \A i \in (Len(phrase) + 1)..Len(text) : text[i] \in Punct

\* Variant that consults the IT keywords before the patterns.
_is_pure_greeting_KeywordsFirst(query) ==
    LET query_lower == Lower(query)
    IN  IF \E i \in 1..Len(query_lower) : query_lower[i] \in it_keywords THEN FALSE
        ELSE IF \E p \in obvious_greetings : MatchesAnchored(query_lower, p) THEN TRUE
        ELSE IF \E p \in greeting_with_context : IsPrefix(p, query_lower) THEN TRUE
        ELSE FALSE

_is_pure_greeting(query) ==
    LET query_lower == Lower(query)
    IN  IF \E p \in obvious_greetings : MatchesAnchored(query_lower, p) THEN TRUE
        ELSE IF \E p \in greeting_with_context : IsPrefix(p, query_lower) THEN TRUE
        ELSE IF \E i \in 1..Len(query_lower) : query_lower[i] \in it_keywords THEN FALSE
        ELSE FALSE

\* ------------------------------------------------------------------------
\* State
\* ------------------------------------------------------------------------
VARIABLES
    index,                     \* documents held by the vector store
    hybrid_search,             \* self.hybrid_search is set (enable_hybrid_search)
    rag_enable_authorization_check,  \* settings flag
    max_messages,              \* settings.chat_max_messages
    _current_metadata_filter,  \* attribute of the shared service instance
    _retrieved_metadata,       \* attribute of the shared service instance
    pc,                        \* per task: position in query / query_stream
    arg,                       \* per task: caller, metadata_filter, question
    messages,                  \* per task: messages of its thread (graph state)
    tool_ret,                  \* per task: what the retrieve tool returned
    llm_calls,                 \* per task: model invocations inside generate
    router_calls,              \* per task: model invocations inside query_or_respond
    response,                  \* per task: value returned by the last query
    runs,                      \* invocations started so far
    chat_history,              \* per session: messages stored by ChatMemoryService
    route_response,            \* what the last /query request returned
    faults,                    \* the dependencies that may fail during a request
    fusion,                    \* a HybridSearchService built from supplied weights
    ranking                    \* a ranking step applied to supplied documents

vars == <<index, hybrid_search, rag_enable_authorization_check, max_messages, faults, fusion, ranking,
          _current_metadata_filter, _retrieved_metadata, pc, arg, messages,
          tool_ret, llm_calls, router_calls, response, runs, chat_history,
          route_response>>

NoToolRet == [ret |-> "none", content |-> <<>>, artifact |-> <<>>,
              metadata |-> EmptyMetadata, searches |-> <<>>, vector_scores |-> <<>>,
              raw_scores |-> <<>>]

\* used_tools: metadata.used_tools as query() computes it; used_tools_stream:
\* as query_stream() computes it for the same run.
NoResponse == [present |-> FALSE, answer |-> <<>>, used_tools |-> FALSE,
               used_tools_stream |-> FALSE, metadata |-> EmptyMetadata]

NoFusion == [stage |-> "none", vector_weight |-> vector_weight,
             bm25_weight |-> bm25_weight, vector_scores |-> <<>>,
             bm25_scores |-> <<>>, hybrid_scores |-> <<>>]

\* op: the step applied last; in_docs, in_scores: its arguments; out_docs,
\* out_scores: what it returned.
NoRanking == [op |-> "none", query |-> <<>>, in_docs |-> <<>>, in_scores |-> <<>>,
              out_docs |-> <<>>, out_scores |-> <<>>]

NoArg == [caller |-> Anonymous, metadata_filter |-> NoFilter, question |-> <<>>]

Sessions == {"s1"}

\* Response of /query.  status: the HTTP status; fault: what the request ran
\* into.  sources_field: a QueryWithSourcesResponse was
\* returned; probe: the unrestricted search was issued; raw_scores: the
\* scores the filtered search returned; retrieved_links: the source_link of
\* each entry of metadata.retrieved_documents ("" = absent).
NoRouteResponse ==
    [present |-> FALSE, caller |-> Anonymous, question |-> <<>>,
     include_sources |-> FALSE, answer |-> <<>>,
     rejection_reason |-> "", num_documents_retrieved |-> 0,
     similarity_scores |-> <<>>, max_similarity_score |-> -1,
     source_links |-> <<>>, sources_field |-> FALSE, has_chat_history |-> FALSE,
     probe |-> FALSE, raw_scores |-> <<>>, status |-> 200, fault |-> "none",
     retrieved_links |-> <<>>]

Message(type, content, tool_calls, tool_query) ==
    [type |-> type, content |-> content, tool_calls |-> tool_calls,
     tool_query |-> tool_query]

Init ==
    /\ index \in Corpora
    /\ hybrid_search \in BOOLEAN
    /\ rag_enable_authorization_check \in BOOLEAN
    /\ max_messages = chat_max_messages
    /\ faults = {}
    /\ fusion = NoFusion
    /\ ranking = NoRanking
    /\ _current_metadata_filter = NoFilter
    /\ _retrieved_metadata = EmptyMetadata
    /\ pc = [t \in Tasks |-> "idle"]
    /\ arg = [t \in Tasks |-> NoArg]
    /\ messages = [t \in Tasks |-> <<>>]
    /\ tool_ret = [t \in Tasks |-> NoToolRet]
    /\ llm_calls = [t \in Tasks |-> 0]
    /\ router_calls = [t \in Tasks |-> 0]
    /\ response = [t \in Tasks |-> NoResponse]
    /\ runs = 0
    /\ chat_history = [sid \in Sessions |-> <<>>]
    /\ route_response = NoRouteResponse

\* ------------------------------------------------------------------------
\* LangGraphRAGService.query / query_stream, one graph node per step
\* ------------------------------------------------------------------------
\* Variant of the entry for a graph compiled without checkpointer: the run
\* starts from the user message alone.
StartQuery_WithoutMemory(t, caller, question) ==
    /\ pc[t] = "idle"
    /\ runs < MaxRuns
    /\ runs' = runs + 1
    /\ arg' = [arg EXCEPT ![t] = [caller |-> caller,
                                  metadata_filter |-> build_metadata_filter(caller),
                                  question |-> question]]
    /\ _current_metadata_filter' = build_metadata_filter(caller)
    /\ _retrieved_metadata' = EmptyMetadata
    /\ messages' = [messages EXCEPT ![t] =
                       <<Message("human", question, FALSE, <<>>)>>]
    /\ tool_ret' = [tool_ret EXCEPT ![t] = NoToolRet]
    /\ llm_calls' = [llm_calls EXCEPT ![t] = 0]
    /\ router_calls' = [router_calls EXCEPT ![t] = 0]
    /\ response' = [response EXCEPT ![t] = NoResponse]
    /\ pc' = [pc EXCEPT ![t] = "query_or_respond"]
    /\ UNCHANGED <<index, hybrid_search, rag_enable_authorization_check, max_messages, faults, fusion, ranking,
                   chat_history, route_response>>

\* Entry of query()/query_stream(): the filter and the metadata of the shared
\* instance are overwritten, then the graph is entered with the user message.
StartQuery(t, caller, question) ==
    /\ pc[t] = "idle"
    /\ runs < MaxRuns
    /\ runs' = runs + 1
    /\ arg' = [arg EXCEPT ![t] = [caller |-> caller,
                                  metadata_filter |-> build_metadata_filter(caller),
                                  question |-> question]]
    /\ _current_metadata_filter' = build_metadata_filter(caller)
    /\ _retrieved_metadata' = EmptyMetadata
    /\ messages' = [messages EXCEPT ![t] =
                       Append(@, Message("human", question, FALSE, <<>>))]
    /\ tool_ret' = [tool_ret EXCEPT ![t] = NoToolRet]
    /\ llm_calls' = [llm_calls EXCEPT ![t] = 0]
    /\ router_calls' = [router_calls EXCEPT ![t] = 0]
    /\ response' = [response EXCEPT ![t] = NoResponse]
    /\ pc' = [pc EXCEPT ![t] = "query_or_respond"]
    /\ UNCHANGED <<index, hybrid_search, rag_enable_authorization_check, max_messages, faults, fusion, ranking,
                   chat_history, route_response>>

\* Node query_or_respond followed by tools_condition.  The model bound to
\* the retrieve tool either asks for the tool (with a query of its choice)
\* or answers directly.
\* Variant of the greeting branch that hands the greeting to the model.
QueryOrRespondGreeting_ViaModel(t) ==
    /\ pc[t] = "query_or_respond"
    /\ _is_pure_greeting(messages[t][Len(messages[t])].content)
    /\ messages' = [messages EXCEPT ![t] =
                       Append(@, Message("ai", LLMText, FALSE, <<>>))]
    /\ router_calls' = [router_calls EXCEPT ![t] = @ + 1]
    /\ pc' = [pc EXCEPT ![t] = "end"]
    /\ UNCHANGED <<index, hybrid_search, rag_enable_authorization_check, max_messages, faults, fusion, ranking,
                   chat_history, route_response,
                   _current_metadata_filter, _retrieved_metadata, arg, tool_ret,
                   llm_calls, response, runs>>

QueryOrRespondGreeting(t) ==
    /\ pc[t] = "query_or_respond"
    /\ _is_pure_greeting(messages[t][Len(messages[t])].content)
    /\ messages' = [messages EXCEPT ![t] =
                       Append(@, Message("ai", get_greeting_response, FALSE, <<>>))]
    /\ pc' = [pc EXCEPT ![t] = "end"]
    /\ UNCHANGED <<index, hybrid_search, rag_enable_authorization_check, max_messages, faults, fusion, ranking,
                   chat_history, route_response,
                   _current_metadata_filter, _retrieved_metadata, arg, tool_ret,
                   llm_calls, router_calls, response, runs>>

\* Variant of the tool-call branch whose conditional edge skips the tools node.
QueryOrRespondToolCall_SkipTools(t, tool_query) ==
    /\ pc[t] = "query_or_respond"
    /\ ~_is_pure_greeting(messages[t][Len(messages[t])].content)
    /\ messages' = [messages EXCEPT ![t] =
                       Append(@, Message("ai", <<>>, TRUE, tool_query))]
    /\ router_calls' = [router_calls EXCEPT ![t] = @ + 1]
    /\ pc' = [pc EXCEPT ![t] = "generate"]
    /\ UNCHANGED <<index, hybrid_search, rag_enable_authorization_check, max_messages, faults, fusion, ranking,
                   chat_history, route_response,
                   _current_metadata_filter, _retrieved_metadata, arg, tool_ret,
                   llm_calls, response, runs>>

QueryOrRespondToolCall(t, tool_query) ==
    /\ pc[t] = "query_or_respond"
    /\ ~_is_pure_greeting(messages[t][Len(messages[t])].content)
    /\ messages' = [messages EXCEPT ![t] =
                       Append(@, Message("ai", <<>>, TRUE, tool_query))]
    /\ router_calls' = [router_calls EXCEPT ![t] = @ + 1]
    /\ pc' = [pc EXCEPT ![t] = "tools"]
    /\ UNCHANGED <<index, hybrid_search, rag_enable_authorization_check, max_messages, faults, fusion, ranking,
                   chat_history, route_response,
                   _current_metadata_filter, _retrieved_metadata, arg, tool_ret,
                   llm_calls, response, runs>>

QueryOrRespondDirect(t) ==
    /\ pc[t] = "query_or_respond"
    /\ ~_is_pure_greeting(messages[t][Len(messages[t])].content)
    /\ messages' = [messages EXCEPT ![t] =
                       Append(@, Message("ai", LLMText, FALSE, <<>>))]
    /\ router_calls' = [router_calls EXCEPT ![t] = @ + 1]
    /\ pc' = [pc EXCEPT ![t] = "end"]
    /\ UNCHANGED <<index, hybrid_search, rag_enable_authorization_check, max_messages, faults, fusion, ranking,
                   chat_history, route_response,
                   _current_metadata_filter, _retrieved_metadata, arg, tool_ret,
                   llm_calls, response, runs>>

\* Variant of the tools node whose tool lets the search error escape: the
\* invocation is abandoned at the tools node and query() raises.
Tools_Raising(t) ==
    /\ pc[t] = "tools"
    /\ \E fault \in {"none"} \cup (faults \cap {"vectorstore"}) :
       \E r \in {IF fault = "vectorstore"
                 THEN ErrorResult(_current_metadata_filter)
                 ELSE retrieve(index, messages[t][Len(messages[t])].tool_query,
                               _current_metadata_filter, hybrid_search)} :
           /\ tool_ret' = [tool_ret EXCEPT ![t] = r]
           /\ _retrieved_metadata' =
                  IF r.ret = "error" THEN _retrieved_metadata ELSE r.metadata
           /\ messages' =
                  IF r.ret = "error" THEN messages
                  ELSE [messages EXCEPT ![t] =
                           Append(@, Message("tool", r.content, FALSE, <<>>))]
           /\ pc' = [pc EXCEPT ![t] = IF r.ret = "error" THEN "idle" ELSE "generate"]
    /\ UNCHANGED <<index, hybrid_search, rag_enable_authorization_check, max_messages, faults, fusion, ranking,
                   chat_history, route_response,
                   _current_metadata_filter, arg, llm_calls, router_calls,
                   response, runs>>

\* Node tools: the retrieve tool runs with the query of the tool call.  A
\* failed search leaves self._retrieved_metadata as it was.
Tools(t) ==
    /\ pc[t] = "tools"
    /\ \E fault \in {"none"} \cup (faults \cap {"vectorstore"}) :
       \E r \in {IF fault = "vectorstore"
                 THEN ErrorResult(_current_metadata_filter)
                 ELSE retrieve(index, messages[t][Len(messages[t])].tool_query,
                               _current_metadata_filter, hybrid_search)} :
           /\ tool_ret' = [tool_ret EXCEPT ![t] = r]
           /\ _retrieved_metadata' =
                  IF r.ret = "error" THEN _retrieved_metadata ELSE r.metadata
           /\ messages' = [messages EXCEPT ![t] =
                              Append(@, Message("tool", r.content, FALSE, <<>>))]
    /\ pc' = [pc EXCEPT ![t] = "generate"]
    /\ UNCHANGED <<index, hybrid_search, rag_enable_authorization_check, max_messages, faults, fusion, ranking,
                   chat_history, route_response,
                   _current_metadata_filter, arg, llm_calls, router_calls,
                   response, runs>>

\* Node generate.
RECURSIVE TrailingToolContent(_)
TrailingToolContent(msgs) ==
    IF msgs = <<>> \/ msgs[Len(msgs)].type # "tool" THEN <<>>
    ELSE LET before == TrailingToolContent(SubSeq(msgs, 1, Len(msgs) - 1))
             last == msgs[Len(msgs)].content
         IN  IF Len(msgs) > 1 /\ msgs[Len(msgs) - 1].type = "tool"
             THEN before \o <<"\n\n">> \o last
             ELSE last

GenerateEmitsNoKnowledge(docs_content) ==
    docs_content = <<>> \/ Contains(docs_content, NoRelevantPhrase)

\* Variant of the generate node with an edge back to the tools node.
Generate_BackToTools(t) ==
    /\ pc[t] = "generate"
    /\ LET docs_content == TrailingToolContent(messages[t])
       IN  IF GenerateEmitsNoKnowledge(docs_content)
           THEN /\ messages' = [messages EXCEPT ![t] =
                       Append(@, Message("ai", get_no_documents_response, FALSE, <<>>))]
                /\ UNCHANGED llm_calls
           ELSE /\ messages' = [messages EXCEPT ![t] =
                       Append(@, Message("ai", LLMText, FALSE, <<>>))]
                /\ llm_calls' = [llm_calls EXCEPT ![t] = @ + 1]
    /\ pc' = [pc EXCEPT ![t] = "tools"]
    /\ UNCHANGED <<index, hybrid_search, rag_enable_authorization_check, max_messages, faults, fusion, ranking,
                   chat_history, route_response,
                   _current_metadata_filter, _retrieved_metadata, arg, tool_ret,
                   router_calls, response, runs>>

Generate(t) ==
    /\ pc[t] = "generate"
    /\ LET docs_content == TrailingToolContent(messages[t])
       IN  IF GenerateEmitsNoKnowledge(docs_content)
           THEN /\ messages' = [messages EXCEPT ![t] =
                       Append(@, Message("ai", get_no_documents_response, FALSE, <<>>))]
                /\ UNCHANGED llm_calls
           ELSE /\ messages' = [messages EXCEPT ![t] =
                       Append(@, Message("ai", LLMText, FALSE, <<>>))]
                /\ llm_calls' = [llm_calls EXCEPT ![t] = @ + 1]
    /\ pc' = [pc EXCEPT ![t] = "end"]
    /\ UNCHANGED <<index, hybrid_search, rag_enable_authorization_check, max_messages, faults, fusion, ranking,
                   chat_history, route_response,
                   _current_metadata_filter, _retrieved_metadata, arg, tool_ret,
                   router_calls, response, runs>>

\* After the graph ended: query() builds its return value.
Finish(t) ==
    /\ pc[t] = "end"
    /\ response' = [response EXCEPT ![t] =
           [present |-> TRUE,
            answer |-> messages[t][Len(messages[t])].content,
            used_tools |-> \E i \in 1..Len(messages[t]) : messages[t][i].tool_calls,
            used_tools_stream |-> tool_ret[t].ret # "none",
            metadata |-> _retrieved_metadata]]
    /\ pc' = [pc EXCEPT ![t] = "idle"]
    /\ UNCHANGED <<index, hybrid_search, rag_enable_authorization_check, max_messages, faults, fusion, ranking,
                   chat_history, route_response,
                   _current_metadata_filter, _retrieved_metadata, arg, messages,
                   tool_ret, llm_calls, router_calls, runs>>

\* ------------------------------------------------------------------------
\* POST /query (app/api/routes/query.py) with ChatMemoryService
\* ------------------------------------------------------------------------
\* Variant of the trimming that counts exchanges: the limit is applied to
\* pairs of messages.
_trim_history_ByExchange(history) ==
    IF Len(history) > 2 * max_messages
    THEN SubSeq(history, Len(history) - 2 * max_messages + 1, Len(history))
    ELSE history

_trim_history(history) ==
    IF Len(history) > max_messages
    THEN SubSeq(history, Len(history) - max_messages + 1, Len(history))
    ELSE history

add_exchange(history, user_message, assistant_message) ==
    _trim_history(history \o <<[role |-> "user", content |-> user_message],
                               [role |-> "assistant", content |-> assistant_message]>>)

\* app/utils/intent.py, on the words of the message.
question_keywords ==
    {"?", "apa", "bagaimana", "gimana", "mengapa", "kenapa", "dimana", "kapan",
     "berapa", "what", "how", "why", "where", "when", "which"}
smalltalk_words ==
    {"hai", "halo", "hello", "hi", "makasih", "thanks", "oke", "okey", "ok",
     "sip", "siap", "noted", "maaf", "sorry"}
sources_keywords ==
    {"sumber", "referensi", "link", "tautan", "source", "citation", "bukti",
     "lampiran", "dokumen"}

is_smalltalk(text) ==
    LET s == Lower(text)
    IN  /\ text # <<>>
        /\ ~ \E i \in 1..Len(s) : s[i] \in question_keywords
        /\ \E i \in 1..Len(s) : s[i] \in smalltalk_words

wants_sources(text) ==
    LET s == Lower(text)
    IN  \E i \in 1..Len(s) : s[i] \in sources_keywords

\* Variant of the collection of links without the seen set.
UniqueLinks_KeepRepeats(docs, seen) ==
    SelectSeq([i \in 1..Len(docs) |-> docs[i].source_link], LAMBDA link : link # "")

\* Unique source links in order of first appearance.
RECURSIVE UniqueLinks(_, _)
UniqueLinks(docs, seen) ==
    IF docs = <<>> THEN <<>>
    ELSE LET link == Head(docs).source_link
         IN  IF link # "" /\ link \notin seen
             THEN <<link>> \o UniqueLinks(Tail(docs), seen \cup {link})
             ELSE UniqueLinks(Tail(docs), seen)

SourcesBlock(source_links) ==
    <<"\n\nSumber:">> \o [i \in 1..Len(source_links) |-> source_links[i]]

\* top_k = 0 stands for an absent top_k: search() falls back to rag_top_k.
TopKs == {0, 1}
effective_k(k) == IF k = 0 THEN rag_top_k ELSE k

\* What a request can run into: a dependency listed in faults may fail
\* during the request.  "vectorstore": VectorStoreService.search raises
\* VectorStoreError; "llm": generate_answer raises; "redis_read": get_history
\* catches the error and returns []; "redis_write": setex raises inside
\* add_exchange, which logs and returns.
Faults == {"vectorstore", "llm", "redis_read", "redis_write"}

\* The handler has no await: it runs as one step.
query_documents(caller, question, top_k, include_sources, session_id) ==
    \E fault \in {"none"} \cup faults :
    LET loaded == IF fault = "redis_read" THEN <<>> ELSE chat_history[session_id]
        metadata_filter == build_metadata_filter(caller)
        found == search(index, effective_k(top_k), metadata_filter, TRUE)
        retrieved_docs == found.retrieved_docs
        similarity_scores == [i \in 1..Len(found.summary_docs) |->
                                 found.summary_docs[i].score]
        source_links == UniqueLinks(found.summary_docs, {})
        should_check_authorization ==
            /\ rag_enable_authorization_check
            /\ caller # Anonymous
            /\ caller \in {"STUDENT"}
        unrestricted == search(index, 1, NoFilter, FALSE)
        access_denied ==
            /\ should_check_authorization
            /\ UnpackOk(unrestricted)
            /\ UnpackFirst(unrestricted) # <<>>
        add_sources == (include_sources \/ wants_sources(question))
                       /\ ~is_smalltalk(question)
        generated ==
            IF add_sources /\ source_links # <<>>
            THEN LLMText \o SourcesBlock(source_links)
            ELSE LLMText
        base == [NoRouteResponse EXCEPT
                    !.present = TRUE, !.caller = caller, !.question = question,
                    !.include_sources = include_sources,
                    !.has_chat_history = (Len(loaded) > 0),
                    !.raw_scores = similarity_scores, !.fault = fault]
        resp ==
            IF retrieved_docs = <<>>
            THEN IF access_denied
                 THEN [base EXCEPT !.answer = RouteAccessDenied,
                                   !.rejection_reason = "insufficient_permissions",
                                   !.probe = TRUE]
                 ELSE [base EXCEPT !.answer = RouteNoDocs,
                                   !.rejection_reason = "no_documents_found",
                                   !.probe = should_check_authorization]
            ELSE IF similarity_scores # <<>>
                    /\ SeqMax(similarity_scores) < rag_similarity_threshold
                 THEN [base EXCEPT !.answer = RouteLowSim,
                                   !.rejection_reason = "low_similarity",
                                   !.num_documents_retrieved = Len(retrieved_docs),
                                   !.similarity_scores = similarity_scores,
                                   !.max_similarity_score = SeqMax(similarity_scores)]
                 ELSE [base EXCEPT !.answer = generated,
                                   !.num_documents_retrieved = Len(retrieved_docs),
                                   !.similarity_scores = similarity_scores,
                                   !.max_similarity_score = SeqMax(similarity_scores),
                                   !.source_links = source_links,
                                   !.retrieved_links =
                                       [i \in 1..Len(found.summary_docs) |->
                                           found.summary_docs[i].source_link],
                                   !.sources_field = (include_sources /\ loaded = <<>>)]
        \* The outer except: HTTPException(500).
        raised == \/ fault = "vectorstore"
                  \/ fault = "llm" /\ resp.rejection_reason = ""
        failed == [NoRouteResponse EXCEPT
                      !.present = TRUE, !.caller = caller, !.question = question,
                      !.include_sources = include_sources, !.status = 500,
                      !.fault = fault]
    IN  /\ runs < MaxRuns
        /\ runs' = runs + 1
        /\ route_response' = IF raised THEN failed ELSE resp
        /\ chat_history' =
               IF raised \/ fault = "redis_write" THEN chat_history
               ELSE [chat_history EXCEPT ![session_id] =
                        add_exchange(loaded, question, resp.answer)]
        /\ UNCHANGED <<index, hybrid_search, rag_enable_authorization_check, max_messages, faults, fusion, ranking,
                       _current_metadata_filter, _retrieved_metadata, pc, arg,
                       messages, tool_ret, llm_calls, router_calls, response>>

NextRoute ==
    \E caller \in Callers, question \in Questions, top_k \in TopKs,
       include_sources \in BOOLEAN, session_id \in Sessions :
        query_documents(caller, question, top_k, include_sources, session_id)

SpecRoute == Init /\ [][NextRoute]_vars

\* One query at a time on the service.
Next ==
    \/ \E t \in SeqTasks, caller \in Callers, question \in Questions :
           StartQuery(t, caller, question)
    \/ \E t \in SeqTasks : QueryOrRespondGreeting(t)
    \/ \E t \in SeqTasks, tool_query \in ToolQueries : QueryOrRespondToolCall(t, tool_query)
    \/ \E t \in SeqTasks : QueryOrRespondDirect(t)
    \/ \E t \in SeqTasks : Tools(t)
    \/ \E t \in SeqTasks : Generate(t)
    \/ \E t \in SeqTasks : Finish(t)

Spec == Init /\ [][Next]_vars

\* Two tasks querying the same service instance, their graph nodes
\* interleaved (query_stream awaits between nodes; query runs in a thread).
InitConcurrent ==
    /\ Init
    /\ index = <<VpnPublic, VpnInternal, KeysConfidential, WifiPublic>>
    /\ hybrid_search = FALSE
    /\ rag_enable_authorization_check = TRUE

NextConcurrent ==
    \/ \E t \in Tasks, caller \in Callers, question \in Questions :
           StartQuery(t, caller, question)
    \/ \E t \in Tasks : QueryOrRespondGreeting(t)
    \/ \E t \in Tasks, tool_query \in ToolQueries : QueryOrRespondToolCall(t, tool_query)
    \/ \E t \in Tasks : QueryOrRespondDirect(t)
    \/ \E t \in Tasks : Tools(t)
    \/ \E t \in Tasks : Generate(t)
    \/ \E t \in Tasks : Finish(t)

SpecConcurrent == InitConcurrent /\ [][NextConcurrent]_vars

\* The generate node on every value the retrieve tool can hand over.  The
\* graph stands between the tools node and generate; the tool message holds
\* either what retrieve computes on the index or the rejection tuple that
\* _check_authorization_restrictions returns once the value of the probe
\* unpacks (a vector store injected through the constructor whose search
\* returns a pair).
RejectionReturn(current_filter) ==
    LET current_role == _detect_user_role(current_filter)
    IN  [NoToolRet EXCEPT
            !.ret = "insufficient_permissions",
            !.content = RejectionFor(current_role).message,
            !.metadata = RejectionMetadata(current_role),
            !.searches = <<current_filter, NoFilter>>]

InitGenerate ==
    /\ index \in Corpora
    /\ hybrid_search \in BOOLEAN
    /\ rag_enable_authorization_check \in BOOLEAN
    /\ max_messages = chat_max_messages
    /\ faults = {}
    /\ fusion = NoFusion
    /\ ranking = NoRanking
    /\ \E caller \in Callers :
        \E filter \in {build_metadata_filter(caller)},
           computed \in {retrieve(index, QVpn, build_metadata_filter(caller),
                                  hybrid_search)} :
            /\ arg = [t \in Tasks |->
                        IF t \in SeqTasks
                        THEN [caller |-> caller, metadata_filter |-> filter,
                              question |-> QVpn]
                        ELSE NoArg]
            /\ _current_metadata_filter = filter
            /\ \E r \in {computed} \cup
                        (IF computed.ret = "no_documents_found" /\ filter # NoFilter
                         THEN {RejectionReturn(filter)} ELSE {}) :
                /\ tool_ret = [t \in Tasks |-> IF t \in SeqTasks THEN r ELSE NoToolRet]
                /\ _retrieved_metadata = r.metadata
                /\ messages = [t \in Tasks |->
                       IF t \in SeqTasks
                       THEN <<Message("human", QVpn, FALSE, <<>>),
                              Message("ai", <<>>, TRUE, QVpn),
                              Message("tool", r.content, FALSE, <<>>)>>
                       ELSE <<>>]
    /\ pc = [t \in Tasks |-> IF t \in SeqTasks THEN "generate" ELSE "idle"]
    /\ llm_calls = [t \in Tasks |-> 0]
    /\ router_calls = [t \in Tasks |-> IF t \in SeqTasks THEN 1 ELSE 0]
    /\ response = [t \in Tasks |-> NoResponse]
    /\ runs = 1
    /\ chat_history = [sid \in Sessions |-> <<>>]
    /\ route_response = NoRouteResponse

NextGenerate ==
    \/ \E t \in SeqTasks : Generate(t)
    \/ \E t \in SeqTasks : Finish(t)

SpecGenerate == InitGenerate /\ [][NextGenerate]_vars

\* ------------------------------------------------------------------------
\* Properties
\* ------------------------------------------------------------------------
\* Position of the user message that opened the current invocation of t.
LastHuman(t) ==
    CHOOSE i \in 1..Len(messages[t]) :
        /\ messages[t][i].type = "human"
        /\ \A j \in (i + 1)..Len(messages[t]) : messages[t][j].type # "human"

\* The model asked for the retrieve tool during the current invocation.
ToolRequested(t) ==
    \E i \in LastHuman(t)..Len(messages[t]) : messages[t][i].tool_calls

\* The retrieve tool ran during the current invocation.
ToolRan(t) == tool_ret[t].ret # "none"

\* The graph of the current invocation has ended.
Ended(t) == pc[t] = "end" \/ response[t].present

FinalAnswer(t) == messages[t][Len(messages[t])].content

\* C1: when two queries run concurrently on the same service instance, the
\* filtered vector search of a query's retrieve tool uses the filter that
\* was passed to that same query.
C1_FilterIsolation ==
    \A t \in Tasks :
        ToolRan(t) => tool_ret[t].searches[1] = arg[t].metadata_filter

\* C2: role monotonicity of build_metadata_filter: with the privilege order
\* anonymous <= STUDENT < LECTURER < ADMIN <= SUPER_ADMIN, a document that
\* passes the filter of the lower caller passes the filter of the higher
\* caller, whatever its sensitivity tag; anonymous and STUDENT get the
\* public-only filter and ADMIN gets no filter.
Privilege(caller) ==
    CASE caller = Anonymous -> 0
      [] caller = "STUDENT" -> 0
      [] caller = "LECTURER" -> 1
      [] caller = "ADMIN" -> 2
      [] caller = "SUPER_ADMIN" -> 2

C2_RoleMonotonicity ==
    route_response.present =>
        LET served == build_metadata_filter(route_response.caller)
        IN  /\ route_response.caller \in {Anonymous, "STUDENT"} => served = PublicFilter
            /\ route_response.caller = "ADMIN" => served = NoFilter
            /\ \A lower \in Callers, sens \in Sensitivities :
                   (Privilege(lower) <= Privilege(route_response.caller)
                    /\ FilterPasses(build_metadata_filter(lower), sens))
                       => FilterPasses(served, sens)

\* C3 as stated: in every invocation whose user message is not a pure
\* greeting, the retrieve tool has run before the final answer is produced,
\* whatever the model chose.
C3_RetrievalBeforeAnswer ==
    \A t \in Tasks :
        (Ended(t) /\ ~_is_pure_greeting(arg[t].question)) => ToolRan(t)

\* C3 amended: in every invocation whose user message is not a pure
\* greeting, if the model asked for the retrieve tool then the tool has run
\* and its result immediately precedes the final answer; if the model
\* answered without a tool call, its answer is final and no retrieval ran.
C3_RetrievalBeforeAnswerWhenRequested ==
    \A t \in Tasks :
        (Ended(t) /\ ~_is_pure_greeting(arg[t].question)) =>
            IF ToolRequested(t)
            THEN /\ ToolRan(t)
                 /\ messages[t][Len(messages[t]) - 1].type = "tool"
                 /\ messages[t][Len(messages[t]) - 1].content = tool_ret[t].content
            ELSE /\ ~ToolRan(t)
                 /\ FinalAnswer(t) = LLMText

C3_Witness ==
    \E t \in Tasks :
        /\ response[t].present
        /\ ~_is_pure_greeting(arg[t].question)
        /\ ToolRequested(t)
        /\ ToolRan(t)
        /\ response[t].answer = LLMText

\* Outcome of the retrieval of the current invocation of t.
Outcome(t) == tool_ret[t].ret

\* The unrestricted probe (filter None, k = 1) would return a hit.
ProbeHits == Len(similarity_search(index, 1, NoFilter)) >= 1

\* The unrestricted probe was issued by the retrieve tool of t.
ProbeIssued(t) == Len(tool_ret[t].searches) = 2 /\ tool_ret[t].searches[2] = NoFilter

\* C4: whenever a retrieval finds at least one document the outcome is
\* LowSimilarity (with the maximum score reported) if and only if the maximum
\* similarity score of the retrieved documents is strictly below
\* rag_similarity_threshold, in the retrieve tool with hybrid ranking on or
\* off and in /query.
C4_ThresholdGate ==
    /\ \A t \in Tasks :
        (ToolRan(t) /\ tool_ret[t].vector_scores # <<>>) =>
            /\ (Outcome(t) = "low_similarity")
                  <=> (SeqMax(tool_ret[t].vector_scores) < rag_similarity_threshold)
            /\ (Outcome(t) # "low_similarity") => (Outcome(t) = "documents")
            /\ (Outcome(t) = "low_similarity") =>
                  /\ tool_ret[t].metadata.rejection_reason = "low_similarity"
                  /\ tool_ret[t].metadata.max_similarity_score
                         = SeqMax(tool_ret[t].vector_scores)
    /\ (route_response.present /\ route_response.raw_scores # <<>>) =>
            (route_response.rejection_reason = "low_similarity")
                <=> (SeqMax(route_response.raw_scores) < rag_similarity_threshold)

\* C5: for a STUDENT caller, when the public-only search returns no hit and
\* the unrestricted probe returns at least one, the outcome is
\* InsufficientPermissions: rejection_reason "insufficient_permissions",
\* required_role "lecturer", and the answer is the lecturer-contact message.
C5_StudentProbe ==
    \A t \in Tasks :
        (/\ response[t].present
         /\ arg[t].caller = "STUDENT"
         /\ ToolRan(t)
         /\ tool_ret[t].raw_scores = <<>>
         /\ ProbeHits) =>
            /\ response[t].metadata.rejection_reason = "insufficient_permissions"
            /\ response[t].metadata.required_role = "lecturer"
            /\ response[t].answer = StudentRejection

\* C6: for anonymous, STUDENT and LECTURER callers alike, zero filtered hits
\* trigger the unrestricted probe; a probe hit classifies the outcome as
\* InsufficientPermissions with the message of the role table, no probe hit
\* as NoDocumentsFound; an ADMIN caller is never probed.
RoleTableMessage(caller) ==
    CASE caller = "STUDENT" -> StudentRejection
      [] caller = "LECTURER" -> LecturerRejection
      [] caller = Anonymous -> AnonymousRejection
      [] OTHER -> FallbackRejection

C6_ProbeForEveryRoleBelowAdmin ==
    \A t \in Tasks :
        ToolRan(t) =>
            /\ (arg[t].caller \in {Anonymous, "STUDENT", "LECTURER"}
                /\ tool_ret[t].raw_scores = <<>>) =>
                   /\ ProbeIssued(t)
                   /\ ProbeHits =>
                          /\ Outcome(t) = "insufficient_permissions"
                          /\ tool_ret[t].content = RoleTableMessage(arg[t].caller)
                   /\ ~ProbeHits => Outcome(t) = "no_documents_found"
            /\ arg[t].caller = "ADMIN" => ~ProbeIssued(t)

\* C7: with rag_enable_authorization_check disabled no unrestricted probe
\* search is issued and every empty retrieval is classified
\* NoDocumentsFound, in the retrieve tool and in /query.
C7_NoProbeWhenDisabled ==
    ~rag_enable_authorization_check =>
        /\ \A t \in Tasks :
               ToolRan(t) =>
                   /\ ~ProbeIssued(t)
                   /\ tool_ret[t].raw_scores = <<>> =>
                          /\ Outcome(t) = "no_documents_found"
                          /\ tool_ret[t].metadata.rejection_reason = "no_documents_found"
        /\ route_response.present =>
               /\ ~route_response.probe
               /\ route_response.raw_scores = <<>> =>
                      route_response.rejection_reason = "no_documents_found"

\* C8: in Generate, whenever the retrieval result is NoDocumentsFound or
\* LowSimilarity, the final answer is exactly the fixed no-knowledge
\* response and the model is not invoked in Generate.
C8_NoKnowledgeOnRejection ==
    \A t \in Tasks :
        (Ended(t) /\ Outcome(t) \in {"no_documents_found", "low_similarity"}) =>
            /\ FinalAnswer(t) = get_no_documents_response
            /\ llm_calls[t] = 0

C10_ModelInvokedOnDocuments ==
    \A t \in Tasks :
        (Ended(t) /\ Outcome(t) = "documents") =>
            /\ llm_calls[t] = 1
            /\ FinalAnswer(t) # get_no_documents_response

\* C11: for every user message classified as a pure greeting the invocation
\* goes from query_or_respond straight to the end: the only message added
\* after the user message is the fixed greeting text, which is the answer,
\* the tools and generate nodes are never entered, no vector search is
\* issued and the model is invoked neither for routing nor in generate.
C11_GreetingShortCircuit ==
    \A t \in Tasks :
        /\ (pc[t] \in {"tools", "generate"}) => ~_is_pure_greeting(arg[t].question)
        /\ (Ended(t) /\ _is_pure_greeting(arg[t].question)) =>
               /\ LastHuman(t) = Len(messages[t]) - 1
               /\ FinalAnswer(t) = get_greeting_response
               /\ ~ToolRan(t)
               /\ tool_ret[t].searches = <<>>
               /\ router_calls[t] = 0
               /\ llm_calls[t] = 0
               /\ response[t].present =>
                      response[t].answer = get_greeting_response

C11_Witness ==
    \E t \in Tasks :
        /\ response[t].present
        /\ arg[t].question = QHalo
        /\ _is_pure_greeting(arg[t].question)
        /\ response[t].answer = get_greeting_response

\* ------------------------------------------------------------------------
\* Greeting detection on a range of messages
\* ------------------------------------------------------------------------
QHaloInstall == <<"Halo", ",", "gimana", "cara", "install", "VPN", "?">>
QContextThenKeyword == <<"halo", "apa", "kabar", "vpn">>

GreetingInputs ==
    { QHalo, QHaloInstall, QContextThenKeyword, QVpn,
      <<>>, <<"!">>, <<"halo">>,
      <<"halo", "apa", "kabar">>,
      <<"Halo", ",", "apa", "kabar", "?">>,
      <<"apa", "kabar">>,
      <<"gimana", "kabar">>,
      <<"terima", "kasih", ".">>,
      <<"thanks", "vpn">>,
      <<"selamat", "pagi">>,
      <<"selamat", "pagi", "semua">>,
      <<"nice", "to", "meet", "you", "admin">> }

\* The service on an empty index, asked each of the messages above.
InitGreeting ==
    /\ Init
    /\ index = <<>>
    /\ hybrid_search = FALSE
    /\ rag_enable_authorization_check = TRUE

NextGreeting ==
    \/ \E t \in SeqTasks, question \in GreetingInputs :
           StartQuery(t, Anonymous, question)
    \/ \E t \in SeqTasks : QueryOrRespondGreeting(t)
    \/ \E t \in SeqTasks, tool_query \in ToolQueries : QueryOrRespondToolCall(t, tool_query)
    \/ \E t \in SeqTasks : QueryOrRespondDirect(t)
    \/ \E t \in SeqTasks : Tools(t)
    \/ \E t \in SeqTasks : Generate(t)
    \/ \E t \in SeqTasks : Finish(t)

SpecGreeting == InitGreeting /\ [][NextGreeting]_vars

\* Pattern group (a): a standalone greeting followed by punctuation only.
MatchesObvious(query) ==
    \E p \in obvious_greetings : MatchesAnchored(Lower(query), p)

\* Pattern group (b): the message starts with a greeting-plus-context phrase.
MatchesContext(query) ==
    \E p \in greeting_with_context : IsPrefix(p, Lower(query))

\* The current invocation of t has left query_or_respond.
Routed(t) == pc[t] \in {"tools", "generate", "end"} \/ response[t].present

GraphStep(t) ==
    \/ QueryOrRespondGreeting(t)
    \/ \E tool_query \in ToolQueries : QueryOrRespondToolCall(t, tool_query)
    \/ QueryOrRespondDirect(t)
    \/ Tools(t)
    \/ Generate(t)

\* graph.stream() drives the graph to END without yielding control.
SpecLive == Init /\ [][Next]_vars /\ \A t \in SeqTasks : WF_vars(GraphStep(t))

\* Messages of the current invocation of t: from its user message on.
ThisRun(t) == SubSeq(messages[t], LastHuman(t), Len(messages[t]))

Types(msgs) == [i \in 1..Len(msgs) |-> msgs[i].type]

Started(t) == pc[t] # "idle" \/ response[t].present

\* The messages of the invocation match the position in the graph.
PathOk(t) ==
    Started(t) =>
        CASE pc[t] = "query_or_respond" -> Types(ThisRun(t)) = <<"human">>
          [] pc[t] = "tools" ->
                 /\ Types(ThisRun(t)) = <<"human", "ai">>
                 /\ ThisRun(t)[2].tool_calls
                 /\ ~ToolRan(t)
          [] pc[t] = "generate" ->
                 /\ Types(ThisRun(t)) = <<"human", "ai", "tool">>
                 /\ ThisRun(t)[2].tool_calls
                 /\ ToolRan(t)
          [] OTHER ->
                 \/ /\ Types(ThisRun(t)) = <<"human", "ai">>
                    /\ ~ThisRun(t)[2].tool_calls
                    /\ ~ToolRan(t)
                 \/ /\ Types(ThisRun(t)) = <<"human", "ai", "tool", "ai">>
                    /\ ThisRun(t)[2].tool_calls
                    /\ ~ThisRun(t)[4].tool_calls
                    /\ ToolRan(t)

GraphEdges ==
    { <<"idle", "query_or_respond">>, <<"query_or_respond", "end">>,
      <<"query_or_respond", "tools">>, <<"tools", "generate">>,
      <<"generate", "end">>, <<"end", "idle">> }

EdgeOk(t) == pc'[t] # pc[t] => <<pc[t], pc'[t]>> \in GraphEdges

MemoryLimits == {2, 3, 4, chat_max_messages}

InitMemory ==
    /\ index \in {<<>>, <<VpnPublic, WifiPublic>>, <<MailPublic>>}
    /\ hybrid_search = FALSE
    /\ rag_enable_authorization_check = TRUE
    /\ max_messages \in MemoryLimits
    /\ faults \in {{}, Faults}
    /\ fusion = NoFusion
    /\ ranking = NoRanking
    /\ _current_metadata_filter = NoFilter
    /\ _retrieved_metadata = EmptyMetadata
    /\ pc = [t \in Tasks |-> "idle"]
    /\ arg = [t \in Tasks |-> NoArg]
    /\ messages = [t \in Tasks |-> <<>>]
    /\ tool_ret = [t \in Tasks |-> NoToolRet]
    /\ llm_calls = [t \in Tasks |-> 0]
    /\ router_calls = [t \in Tasks |-> 0]
    /\ response = [t \in Tasks |-> NoResponse]
    /\ runs = 0
    /\ chat_history = [sid \in Sessions |-> <<>>]
    /\ route_response = NoRouteResponse

SpecMemory == InitMemory /\ [][NextRoute]_vars

\* The stored messages are whole exchanges: a user message at every odd
\* position, its assistant message right after it.
WholeExchanges(history) ==
    /\ Len(history) % 2 = 0
    /\ \A i \in 1..Len(history) :
           history[i].role = (IF i % 2 = 1 THEN "user" ELSE "assistant")

\* C15: at every point of a /query request, failures included, the stored
\* history of a session holds both messages of an exchange or neither; no
\* message is stored without its partner, also after trimming.
C15_NoHalfWrittenHistory ==
    \A sid \in Sessions : WholeExchanges(chat_history[sid])

\* The last count messages of a history, oldest first.
LastMessages(history, count) ==
    IF Len(history) > count
    THEN SubSeq(history, Len(history) - count + 1, Len(history))
    ELSE history

\* The exchange the request answered in this step stores.
NewExchange ==
    <<[role |-> "user", content |-> route_response'.question],
      [role |-> "assistant", content |-> route_response'.answer]>>

\* A request that ran with every dependency healthy stored its exchange in
\* one session, keeping the last count messages.
StoredLast(count) ==
    faults = {} =>
        \E sid \in Sessions :
            /\ chat_history'[sid] =
                   LastMessages(chat_history[sid] \o NewExchange, count)
            /\ \A other \in Sessions \ {sid} :
                   chat_history'[other] = chat_history[other]

\* C16 as stated: after any sequence of add_exchange calls on a session the
\* stored history is the most recent N exchanges, N = chat_max_messages
\* (all of them if fewer were added), oldest first.
C16_LastNExchanges == [][StoredLast(2 * max_messages)]_vars

\* C16: after any sequence of add_exchange calls on a session the stored
\* history is the most recent N messages, N = chat_max_messages (all of them
\* if fewer were stored), oldest first, and never holds more than N messages.
C16_LastNMessages ==
    /\ [](\A sid \in Sessions : Len(chat_history[sid]) <= max_messages)
    /\ [][StoredLast(max_messages)]_vars

\* Two exchanges were added under a limit of two messages: the older
\* exchange is gone.
C16_Witness ==
    /\ faults = {}
    /\ fusion = NoFusion
    /\ ranking = NoRanking
    /\ max_messages = 2
    /\ runs = 2
    /\ Len(chat_history["s1"]) = 2
    /\ chat_history["s1"][1].content = route_response.question

\* ------------------------------------------------------------------------
\* Both pipelines with a vector store that may fail
\* ------------------------------------------------------------------------
InitOutage ==
    /\ index \in {<<>>, <<VpnPublic, WifiPublic>>, <<VpnInternal>>}
    /\ hybrid_search \in BOOLEAN
    /\ rag_enable_authorization_check = TRUE
    /\ max_messages = chat_max_messages
    /\ faults = {"vectorstore"}
    /\ fusion = NoFusion
    /\ ranking = NoRanking
    /\ _current_metadata_filter = NoFilter
    /\ _retrieved_metadata = EmptyMetadata
    /\ pc = [t \in Tasks |-> "idle"]
    /\ arg = [t \in Tasks |-> NoArg]
    /\ messages = [t \in Tasks |-> <<>>]
    /\ tool_ret = [t \in Tasks |-> NoToolRet]
    /\ llm_calls = [t \in Tasks |-> 0]
    /\ router_calls = [t \in Tasks |-> 0]
    /\ response = [t \in Tasks |-> NoResponse]
    /\ runs = 0
    /\ chat_history = [sid \in Sessions |-> <<>>]
    /\ route_response = NoRouteResponse

\* A /query request is served only while no graph invocation is under way.
NextOutage ==
    \/ Next
    \/ (\A t \in Tasks : pc[t] = "idle") /\ NextRoute

SpecOutage == InitOutage /\ [][NextOutage]_vars

\* The search of the last /query request failed and the request failed.
RouteFailureSurfaced ==
    (route_response.present /\ route_response.fault = "vectorstore") =>
        /\ route_response.status = 500
        /\ route_response.rejection_reason = ""
        /\ route_response.answer = <<>>

\* The search of the retrieve tool failed and query() returned nothing.
GraphFailureSurfaced ==
    \A t \in Tasks :
        Outcome(t) = "error" =>
            /\ ~response[t].present
            /\ tool_ret[t].metadata.rejection_reason # "no_documents_found"

\* C17: a vector-store failure during retrieval is surfaced as a failed
\* request: neither /query nor LangGraphRAGService.query returns a normal
\* answer, and the failure is never reported as a "no documents" outcome.
C17_VectorStoreFailureSurfaced ==
    RouteFailureSurfaced /\ GraphFailureSurfaced

\* C18: when the retrieve tool fails inside the graph, the failure becomes
\* the tool message "Error retrieving documents", the invocation goes on
\* from the tools node through generate to the end, and query returns the
\* generated answer.
C18_ToolErrorBecomesText ==
    \A t \in Tasks :
        Outcome(t) = "error" =>
            /\ tool_ret[t].content = ErrorToolText
            /\ tool_ret[t].artifact = <<>>
            /\ pc[t] \in {"generate", "end", "idle"}
            /\ pc[t] = "generate" =>
                   /\ Types(ThisRun(t)) = <<"human", "ai", "tool">>
                   /\ messages[t][Len(messages[t])].content = ErrorToolText
                   /\ ENABLED Generate(t)
            /\ pc[t] # "generate" =>
                   /\ Types(ThisRun(t)) = <<"human", "ai", "tool", "ai">>
                   /\ messages[t][Len(messages[t]) - 1].content = ErrorToolText
                   /\ FinalAnswer(t) = LLMText
                   /\ llm_calls[t] = 1
            /\ pc[t] = "end" => ENABLED Finish(t)
            /\ pc[t] = "idle" =>
                   /\ response[t].present
                   /\ response[t].answer = LLMText
                   /\ response[t].used_tools

C18_Witness ==
    /\ Outcome("t1") = "error"
    /\ response["t1"].present
    /\ response["t1"].answer = LLMText

\* Concurrent queries on one service instance over indexes on which
\* retrievals are rejected for some callers.
InitConcurrentRejections ==
    /\ Init
    /\ index \in {<<VpnInternal>>, <<MailPublic, WifiPublic>>}
    /\ hybrid_search = FALSE
    /\ rag_enable_authorization_check = TRUE

SpecConcurrentRejections == InitConcurrentRejections /\ [][NextConcurrent]_vars

Rejections == {"no_documents_found", "low_similarity", "insufficient_permissions"}

\* The rejection_reason that belongs to the outcome of the retrieve tool in
\* the invocation of t; "" stands for an absent key.
GraphReasonExpected(t) ==
    IF ToolRan(t) /\ Outcome(t) \in Rejections THEN Outcome(t) ELSE ""

\* The outcome of the filtered search of the last /query request, from the
\* scores it returned and the answer given.
RouteOutcome ==
    IF route_response.raw_scores = <<>>
    THEN IF route_response.answer = RouteAccessDenied
         THEN "insufficient_permissions" ELSE "no_documents_found"
    ELSE IF SeqMax(route_response.raw_scores) < rag_similarity_threshold
         THEN "low_similarity" ELSE "documents"

RouteReasonMatches ==
    (route_response.present /\ route_response.status = 200) =>
        /\ route_response.rejection_reason =
               (IF RouteOutcome \in Rejections THEN RouteOutcome ELSE "")
        /\ route_response.rejection_reason = "no_documents_found" =>
               route_response.answer = RouteNoDocs
        /\ route_response.rejection_reason = "low_similarity" =>
               route_response.answer = RouteLowSim

\* C19: in every response metadata.rejection_reason is present exactly when
\* the retrieval outcome was a rejection and then names that rejection; a
\* rejection is returned as a normal response.
C19_RejectionReasonMatchesOutcome ==
    /\ \A t \in Tasks :
           response[t].present =>
               response[t].metadata.rejection_reason = GraphReasonExpected(t)
    /\ RouteReasonMatches
    /\ (route_response.present /\ route_response.fault \notin {"vectorstore", "llm"}) =>
           route_response.status = 200

\* ------------------------------------------------------------------------
\* HybridSearchService built from supplied weights
\* ------------------------------------------------------------------------
\* Weights handed to the constructor, in thousandths.  No pair sums to
\* within one thousandth of the tolerance boundary.
SuppliedWeights == {-500, 0, 300, 700, 1000, 1500}
RawScores == {0, 400, 1000}
ScoreSeries == {<<a>> : a \in RawScores} \cup {<<a, b>> : a, b \in RawScores}

InitFusion ==
    /\ index = <<>>
    /\ ranking = NoRanking
    /\ hybrid_search = TRUE
    /\ rag_enable_authorization_check = TRUE
    /\ max_messages = chat_max_messages
    /\ faults = {}
    /\ _current_metadata_filter = NoFilter
    /\ _retrieved_metadata = EmptyMetadata
    /\ pc = [t \in Tasks |-> "idle"]
    /\ arg = [t \in Tasks |-> NoArg]
    /\ messages = [t \in Tasks |-> <<>>]
    /\ tool_ret = [t \in Tasks |-> NoToolRet]
    /\ llm_calls = [t \in Tasks |-> 0]
    /\ router_calls = [t \in Tasks |-> 0]
    /\ response = [t \in Tasks |-> NoResponse]
    /\ runs = 0
    /\ chat_history = [sid \in Sessions |-> <<>>]
    /\ route_response = NoRouteResponse
    /\ \E vw, bw \in SuppliedWeights, vs, bs \in ScoreSeries :
           /\ Len(vs) = Len(bs)
           /\ fusion = [stage |-> "supplied", vector_weight |-> vw,
                        bm25_weight |-> bw, vector_scores |-> vs,
                        bm25_scores |-> bs, hybrid_scores |-> <<>>]

\* HybridSearchService(vector_weight, bm25_weight)
Construct ==
    /\ fusion.stage = "supplied"
    /\ \E built \in {HybridSearchService__init__(fusion.vector_weight,
                                                 fusion.bm25_weight)} :
           fusion' = [fusion EXCEPT
                         !.stage = IF built.raised THEN "raised" ELSE "constructed",
                         !.vector_weight = built.vector_weight,
                         !.bm25_weight = built.bm25_weight]
    /\ UNCHANGED <<index, hybrid_search, rag_enable_authorization_check,
                   max_messages, faults, ranking, _current_metadata_filter,
                   _retrieved_metadata, pc, arg, messages, tool_ret, llm_calls,
                   router_calls, response, runs, chat_history, route_response>>

\* rerank_with_keywords on the two score series.
Rerank ==
    /\ fusion.stage = "constructed"
    /\ fusion' = [fusion EXCEPT
                     !.stage = "ranked",
                     !.hybrid_scores =
                         WeightedScores(fusion,
                                        _normalize_scores(fusion.vector_scores),
                                        _normalize_scores(fusion.bm25_scores))]
    /\ UNCHANGED <<index, hybrid_search, rag_enable_authorization_check,
                   max_messages, faults, ranking, _current_metadata_filter,
                   _retrieved_metadata, pc, arg, messages, tool_ret, llm_calls,
                   router_calls, response, runs, chat_history, route_response>>

NextFusion == Construct \/ Rerank

SpecFusion == InitFusion /\ [][NextFusion]_vars

\* The weights in use sum to 1.0, to within the service's own tolerance.
WeightsSumToOne ==
    Abs(fusion.vector_weight + fusion.bm25_weight - One) <= WeightTolerance

ScoresInUnitInterval ==
    \A i \in 1..Len(fusion.hybrid_scores) :
        /\ fusion.hybrid_scores[i] >= 0
        /\ fusion.hybrid_scores[i] <= One + WeightTolerance

\* C20: for any vector_weight and bm25_weight supplied to
\* HybridSearchService the weights used by rerank_with_keywords sum to 1.0
\* and every hybrid score lies in [0, 1].
C20_FusionWeights ==
    /\ fusion.stage # "raised"
    /\ fusion.stage \in {"constructed", "ranked"} => WeightsSumToOne
    /\ fusion.stage = "ranked" => ScoresInUnitInterval

\* The same for weights that are not negative and not both zero.
FusionWeightsInRange ==
    (\E vw, bw \in SuppliedWeights :
        /\ vw >= 0 /\ bw >= 0 /\ vw + bw > 0
        /\ HybridSearchService__init__(vw, bw).vector_weight = fusion.vector_weight
        /\ HybridSearchService__init__(vw, bw).bm25_weight = fusion.bm25_weight)
    => /\ fusion.stage \in {"constructed", "ranked"} => WeightsSumToOne
       /\ fusion.stage = "ranked" => ScoresInUnitInterval

\* ------------------------------------------------------------------------
\* The ranking steps of the retrieve tool on supplied documents
\* ------------------------------------------------------------------------
RankVpnA == Doc("rank_vpn_a", "public", 900, <<"install", "vpn", "client">>,
                <<>>, <<>>, "", "", "")
\* Same text and similarity as RankVpnA.
RankVpnB == Doc("rank_vpn_b", "public", 900, <<"install", "vpn", "client">>,
                <<>>, <<>>, "", "", "")
RankKeywords == Doc("rank_keywords", "public", 600, <<"vpn", "guide">>,
                    <<>>, <<"vpn", "install">>, "", "windows", "")
RankTwoFaqs == Doc("rank_two_faqs", "public", 600, <<"vpn", "help">>,
                   << <<"install", "vpn">>, <<"install", "vpn", "now">> >>,
                   <<>>, "", "", "")
RankLowFaq == Doc("rank_low_faq", "public", 700, <<"vpn", "reset">>,
                  << <<"vpn", "reset">> >>, <<>>, "vpn", "", "")
\* Its FAQ shares three of the five words of QVpnLaptop.
RankEdgeFaq == Doc("rank_edge_faq", "public", 900, <<"vpn", "windows">>,
                   << <<"install", "vpn", "windows">> >>, <<>>, "", "", "")
RankPool == {RankVpnA, RankVpnB, RankKeywords, RankTwoFaqs, RankLowFaq,
             RankEdgeFaq, WifiPublic, FaqPublic}

MaxRanked == 3
\* Lists of up to MaxRanked different documents.
RankInputs ==
    UNION {{docs \in [1..n -> RankPool] :
               \A i, j \in 1..n : i # j => docs[i] # docs[j]} : n \in 1..MaxRanked}

QVpnWindows == <<"install", "vpn", "windows">>
QVpnLaptop == <<"install", "vpn", "on", "windows", "laptop">>
RankQueries == {QVpn, QVpnWindows, QVpnLaptop}

InitRanking ==
    /\ index = <<>>
    /\ hybrid_search = TRUE
    /\ rag_enable_authorization_check = TRUE
    /\ max_messages = chat_max_messages
    /\ faults = {}
    /\ fusion = NoFusion
    /\ \E query \in RankQueries, docs \in RankInputs :
           ranking = [op |-> "none", query |-> query, in_docs |-> <<>>,
                      in_scores |-> <<>>, out_docs |-> docs,
                      out_scores |-> Scores(docs)]
    /\ _current_metadata_filter = NoFilter
    /\ _retrieved_metadata = EmptyMetadata
    /\ pc = [t \in Tasks |-> "idle"]
    /\ arg = [t \in Tasks |-> NoArg]
    /\ messages = [t \in Tasks |-> <<>>]
    /\ tool_ret = [t \in Tasks |-> NoToolRet]
    /\ llm_calls = [t \in Tasks |-> 0]
    /\ router_calls = [t \in Tasks |-> 0]
    /\ response = [t \in Tasks |-> NoResponse]
    /\ runs = 0
    /\ chat_history = [sid \in Sessions |-> <<>>]
    /\ route_response = NoRouteResponse

RankingUnchanged ==
    UNCHANGED <<index, hybrid_search, rag_enable_authorization_check,
                max_messages, faults, fusion, _current_metadata_filter,
                _retrieved_metadata, pc, arg, messages, tool_ret, llm_calls,
                router_calls, response, runs, chat_history, route_response>>

\* The FAQ loop of retrieve on the documents the search returned, with the
\* re-sort by boosted score.
ApplyFaqBoost ==
    /\ ranking.op = "none"
    /\ \E boosted \in {FaqBoostAndSort(ranking.query, ranking.out_docs)} :
           ranking' = [ranking EXCEPT
                          !.op = "faq_boost",
                          !.in_docs = ranking.out_docs,
                          !.in_scores = ranking.out_scores,
                          !.out_docs = boosted,
                          !.out_scores = Scores(boosted)]
    /\ RankingUnchanged

\* rerank_with_keywords(query, documents, vector_scores)
ApplyRerank ==
    /\ ranking.op \in {"none", "faq_boost"}
    /\ \E ranked \in {rerank_with_keywords(ranking.query, ranking.out_docs,
                                           ranking.out_scores)} :
           ranking' = [ranking EXCEPT
                          !.op = "rerank",
                          !.in_docs = ranking.out_docs,
                          !.in_scores = ranking.out_scores,
                          !.out_docs = ranked.docs,
                          !.out_scores = ranked.scores]
    /\ RankingUnchanged

\* boost_by_metadata(query, documents, scores)
ApplyBoost ==
    /\ ranking.op \in {"none", "rerank"}
    /\ \E boosted \in {boost_by_metadata(ranking.query, ranking.out_docs,
                                         ranking.out_scores)} :
           ranking' = [ranking EXCEPT
                          !.op = "boost",
                          !.in_docs = ranking.out_docs,
                          !.in_scores = ranking.out_scores,
                          !.out_docs = boosted.docs,
                          !.out_scores = boosted.scores]
    /\ RankingUnchanged

NextRanking == ApplyFaqBoost \/ ApplyRerank \/ ApplyBoost

SpecRanking == InitRanking /\ [][NextRanking]_vars

\* Position of a document in a list of different documents.
IndexIn(docs, doc) == CHOOSE i \in 1..Len(docs) : docs[i] = doc

NonIncreasing(scores) ==
    \A p \in 1..(Len(scores) - 1) : scores[p] >= scores[p + 1]

\* The output lists the input documents, each once.
IsReordering(in_docs, out_docs) ==
    /\ Len(out_docs) = Len(in_docs)
    /\ Range(out_docs) = Range(in_docs)

\* Documents with equal output score are in their input order.
TiesInInputOrder(in_docs, out_docs, out_scores) ==
    \A p, q \in 1..Len(out_docs) :
        (p < q /\ out_scores[p] = out_scores[q]) =>
            IndexIn(in_docs, out_docs[p]) < IndexIn(in_docs, out_docs[q])

\* C21: rerank_with_keywords returns a permutation of its input documents,
\* each paired with its own hybrid score, ordered by non-increasing hybrid
\* score, documents of equal hybrid score in their original relative order.
C21_RerankIsStableSort ==
    ranking.op = "rerank" =>
        /\ IsReordering(ranking.in_docs, ranking.out_docs)
        /\ Len(ranking.out_scores) = Len(ranking.out_docs)
        /\ \A p \in 1..Len(ranking.out_docs) :
               ranking.out_scores[p] =
                   HybridOf(ranking.query, ranking.in_docs, ranking.in_scores)
                       [IndexIn(ranking.in_docs, ranking.out_docs[p])]
        /\ NonIncreasing(ranking.out_scores)
        /\ TiesInInputOrder(ranking.in_docs, ranking.out_docs, ranking.out_scores)

\* Three documents were re-ranked: the order changed and two of them have
\* the same hybrid score.
C21_Witness ==
    /\ ranking.op = "rerank"
    /\ Len(ranking.out_docs) = 3
    /\ ranking.out_docs # ranking.in_docs
    /\ \E p \in 1..2 : ranking.out_scores[p] = ranking.out_scores[p + 1]
    /\ ranking.out_scores[1] > ranking.out_scores[3]

FieldMatches(query_lower, field) ==
    field # "" /\ Contains(query_lower, <<LowerWord(field)>>)

\* Sum of the boosts of the matching fields of a document, the keywords
\* field counted keyword_weight times.
BoostTotal(query_lower, doc, keyword_weight) ==
    KeywordBoost * keyword_weight
    + (IF FieldMatches(query_lower, doc.category) THEN CategoryBoost ELSE 0)
    + (IF FieldMatches(query_lower, doc.platform) THEN PlatformBoost ELSE 0)

Capped(score, total) == IF total = 0 THEN score ELSE Min2(score + total, One)

\* What boost_by_metadata returned, given for every document the number of
\* times the keywords boost counts.
BoostedAsExpected(KeywordWeight(_, _)) ==
    LET query_lower == Lower(ranking.query)
    IN  /\ IsReordering(ranking.in_docs, ranking.out_docs)
        /\ Len(ranking.out_scores) = Len(ranking.out_docs)
        /\ NonIncreasing(ranking.out_scores)
        /\ \A p \in 1..Len(ranking.out_docs) :
               LET doc == ranking.out_docs[p]
                   input == ranking.in_scores[IndexIn(ranking.in_docs, doc)]
                   total == BoostTotal(query_lower, doc, KeywordWeight(query_lower, doc))
               IN  /\ ranking.out_scores[p] = Capped(input, total)
                   /\ ranking.out_scores[p] >= input
                   /\ ranking.out_scores[p] <= One
                   /\ total = 0 => ranking.out_scores[p] = input

AnyKeyword(query_lower, doc) ==
    IF KeywordMatches(query_lower, doc.keywords) > 0 THEN 1 ELSE 0

EachKeyword(query_lower, doc) == KeywordMatches(query_lower, doc.keywords)

\* C22 as stated: boost_by_metadata adds one fixed boost per matching
\* metadata field (keywords +0.15, category +0.10, platform +0.05), capped at
\* 1.0; no output score is below its input score, a document without a
\* matching field keeps its score, and the result is ordered by
\* non-increasing boosted score with every document paired with its score.
C22_FixedBoostPerField ==
    ranking.op = "boost" => BoostedAsExpected(AnyKeyword)

\* C22: boost_by_metadata adds +0.15 for each keyword of the document found
\* in the query, +0.10 for a matching category and +0.05 for a matching
\* platform, capped at 1.0; no output score is below its input score, a
\* document without a match keeps its score, and the result is ordered by
\* non-increasing boosted score with every document paired with its score.
C22_BoostPerMatch ==
    ranking.op = "boost" => BoostedAsExpected(EachKeyword)

\* A document with two keywords in the query was boosted by 0.30 and moved
\* ahead of a document that kept its score.
C22_Witness ==
    /\ ranking.op = "boost"
    /\ ranking.in_docs = <<RankVpnA, RankKeywords>>
    /\ ranking.in_scores = <<900, 600>>
    /\ ranking.query = QVpnWindows
    /\ ranking.out_docs = <<RankKeywords, RankVpnA>>
    /\ ranking.out_scores = <<950, 900>>

\* |query_words & faq_words| / max(|query_words|, 1) > 0.6, on the lowercased
\* words of the two texts.
RatioAboveSixTenths(query, faq) ==
    LET query_words == {LowerWord(query[i]) : i \in 1..Len(query)}
        faq_words == {LowerWord(faq[i]) : i \in 1..Len(faq)}
        overlap == Cardinality(query_words \cap faq_words)
        size == IF query_words = {} THEN 1 ELSE Cardinality(query_words)
    IN  10 * overlap > 6 * size

HasMatchingFaq(query, doc) ==
    \E i \in 1..Len(doc.faq) : RatioAboveSixTenths(query, doc.faq[i])

\* C23: in the retrieve tool a document with at least one faq_question whose
\* word-overlap ratio with the query is strictly above 0.6 has its
\* similarity_score raised by 0.15 once (capped at 1.0) and is tagged
\* faq_boosted, however many FAQs match; any other document keeps its
\* score and gets no tag.
C23_FaqBoostOnce ==
    ranking.op = "faq_boost" =>
        /\ Len(ranking.out_docs) = Len(ranking.in_docs)
        /\ \A i \in 1..Len(ranking.in_docs) :
               LET doc == ranking.in_docs[i]
                   expected ==
                       IF HasMatchingFaq(ranking.query, doc)
                       THEN [doc EXCEPT
                                !.score = IF doc.score + 150 > One THEN One
                                          ELSE doc.score + 150,
                                !.faq_boosted = TRUE]
                       ELSE doc
               IN  \E p \in 1..Len(ranking.out_docs) : ranking.out_docs[p] = expected
        /\ NonIncreasing(ranking.out_scores)

\* A document with two matching FAQs went from 0.60 to 0.75, one with a
\* matching FAQ was capped at 1.0, and one whose FAQ has ratio 0.5 kept its
\* score.
C23_Witness ==
    /\ ranking.op = "faq_boost"
    /\ ranking.query = QVpnWindows
    /\ Range(ranking.in_docs) = {RankTwoFaqs, RankEdgeFaq, RankLowFaq}
    /\ ranking.out_scores = <<1000, 750, 700>>
    /\ ranking.out_docs[2].faq_boosted
    /\ ~ranking.out_docs[3].faq_boosted

\* The ratio is exactly 0.6: no boost.
C23_WitnessBoundary ==
    /\ ranking.op = "faq_boost"
    /\ ranking.query = QVpnLaptop
    /\ ranking.in_docs = <<RankEdgeFaq>>
    /\ ranking.out_docs = <<RankEdgeFaq>>

\* ------------------------------------------------------------------------
\* Citations of /query
\* ------------------------------------------------------------------------
QOkVpn == <<"ok", "install", "vpn">>
QSumberVpn == <<"sumber", "install", "vpn">>
QOkSumber == <<"ok", "sumber", "vpn">>
CitationQuestions == {QVpn, QOkVpn, QSumberVpn, QOkSumber}

InitCitations ==
    /\ index \in {<<VpnPublic, MailPublic, WifiPublic>>, <<FaqPublic, VpnPublic>>,
                  <<QuotePublic>>, <<WifiPublic>>, <<VpnPublic, WifiPublic>>}
    /\ hybrid_search = FALSE
    /\ rag_enable_authorization_check = TRUE
    /\ max_messages = chat_max_messages
    /\ faults = {}
    /\ fusion = NoFusion
    /\ ranking = NoRanking
    /\ _current_metadata_filter = NoFilter
    /\ _retrieved_metadata = EmptyMetadata
    /\ pc = [t \in Tasks |-> "idle"]
    /\ arg = [t \in Tasks |-> NoArg]
    /\ messages = [t \in Tasks |-> <<>>]
    /\ tool_ret = [t \in Tasks |-> NoToolRet]
    /\ llm_calls = [t \in Tasks |-> 0]
    /\ router_calls = [t \in Tasks |-> 0]
    /\ response = [t \in Tasks |-> NoResponse]
    /\ runs = 0
    /\ chat_history = [sid \in Sessions |-> <<>>]
    /\ route_response = NoRouteResponse

NextCitations ==
    \E caller \in Callers, question \in CitationQuestions, top_k \in TopKs,
       include_sources \in BOOLEAN, session_id \in Sessions :
        query_documents(caller, question, top_k, include_sources, session_id)

SpecCitations == InitCitations /\ [][NextCitations]_vars

\* The request reached answer generation.
ReachedGeneration ==
    /\ route_response.present
    /\ route_response.status = 200
    /\ route_response.rejection_reason = ""

FirstPosition(links, link) ==
    CHOOSE i \in 1..Len(links) : links[i] = link /\ \A j \in 1..(i - 1) : links[j] # link

\* links lists each distinct non-empty element of retrieved once, in order of
\* first appearance.
DistinctInOrder(links, retrieved) ==
    /\ Range(links) = Range(retrieved) \ {""}
    /\ \A i, j \in 1..Len(links) :
           i < j => /\ links[i] # links[j]
                    /\ FirstPosition(retrieved, links[i]) < FirstPosition(retrieved, links[j])

EndsWithSourcesBlock ==
    /\ DistinctInOrder(route_response.source_links, route_response.retrieved_links)
    /\ route_response.answer =
           LLMText \o <<"\n\nSumber:">> \o route_response.source_links

HasWord(text, words) == \E i \in 1..Len(text) : LowerWord(text[i]) \in words

AsksForSources(question) == HasWord(question, sources_keywords)

LooksLikeSmalltalk(question) ==
    HasWord(question, smalltalk_words) /\ ~HasWord(question, question_keywords)

\* C24 as stated: with include_sources true and at least one source link the
\* answer of a request that reached generation ends with the sources block;
\* with include_sources false the block is there only if the question asks
\* for sources and is not smalltalk.
C24_SourcesBlockWhenRequested ==
    (ReachedGeneration /\ route_response.source_links # <<>>) =>
        IF route_response.include_sources
        THEN EndsWithSourcesBlock
        ELSE route_response.answer # LLMText =>
                 /\ AsksForSources(route_response.question)
                 /\ ~LooksLikeSmalltalk(route_response.question)

\* C24 (amended): for a request that reached generation with at least one
\* source link, the answer ends with the block of distinct links in order of
\* first appearance exactly when the question is not smalltalk and either
\* include_sources is true or the question asks for sources; otherwise the
\* answer is the generated text alone.
C24_SourcesBlockUnlessSmalltalk ==
    ReachedGeneration =>
        IF /\ route_response.source_links # <<>>
           /\ route_response.include_sources \/ AsksForSources(route_response.question)
           /\ ~LooksLikeSmalltalk(route_response.question)
        THEN EndsWithSourcesBlock
        ELSE route_response.answer = LLMText

\* Two retrieved documents share a link: it is listed once, before the
\* link of the third document.
C24_Witness ==
    /\ ReachedGeneration
    /\ route_response.include_sources
    /\ route_response.question = QVpn
    /\ route_response.retrieved_links = <<"https://kb/vpn", "https://kb/vpn", "https://kb/wifi">>
    /\ route_response.answer =
           LLMText \o <<"\n\nSumber:", "https://kb/vpn", "https://kb/wifi">>

\* include_sources is true and the question is smalltalk: no block.
C24_WitnessSmalltalk ==
    /\ ReachedGeneration
    /\ route_response.include_sources
    /\ route_response.question = QOkVpn
    /\ route_response.source_links # <<>>
    /\ route_response.answer = LLMText

\* C25: a /query request with include_sources true that reaches answer
\* generation gets a response with the sources field, on the first turn of
\* a session and on every later turn (a session with stored history).
C25_SourcesFieldOnEveryTurn ==
    (ReachedGeneration /\ route_response.include_sources) =>
        route_response.sources_field

\* The first turn of a session does carry the field.
C25_FirstTurnHasSources ==
    (ReachedGeneration /\ route_response.include_sources
       /\ ~route_response.has_chat_history) =>
        route_response.sources_field

ContainsItKeyword(query) ==
    \E i \in 1..Len(query) : LowerWord(query[i]) \in it_keywords

\* C26: a message that contains one of the IT keywords is never treated as
\* a pure greeting: it is not answered by the greeting branch and reaches
\* the model call of query_or_respond.
C26_ItKeywordNeverGreeting ==
    \A t \in Tasks :
        (Routed(t) /\ ContainsItKeyword(arg[t].question)) =>
            /\ ~_is_pure_greeting(arg[t].question)
            /\ router_calls[t] = 1

\* C27: metadata.used_tools describes the current invocation only: on any
\* thread, also one whose earlier turns used the retrieve tool, it is True
\* exactly when the retrieve tool ran during this invocation (False for a
\* greeting), and query and query_stream report the same value.
C27_UsedToolsOfThisRun ==
    \A t \in Tasks :
        response[t].present =>
            /\ response[t].used_tools <=> ToolRan(t)
            /\ _is_pure_greeting(arg[t].question) => ~response[t].used_tools
            /\ response[t].used_tools = response[t].used_tools_stream

\* On the first turn of a thread the value is that of the run.
C27_FirstTurnUsedTools ==
    \A t \in Tasks :
        (response[t].present /\ LastHuman(t) = 1) =>
            (response[t].used_tools <=> ToolRan(t))

\* The metadata of the retrieval this invocation of t performed itself.
OwnRetrievalMetadata(t) ==
    IF ToolRan(t) THEN tool_ret[t].metadata ELSE EmptyMetadata

\* C28: the retrieval metadata a query returns (retrieved documents,
\* similarity scores, rejection_reason) is that of the retrieval performed
\* for the same query; metadata of another query, earlier or concurrent,
\* never appears in the response.
C28_MetadataOfOwnRetrieval ==
    \A t \in Tasks :
        response[t].present => response[t].metadata = OwnRetrievalMetadata(t)

\* The retrieve tool of t ran with hybrid ranking and the filtered search
\* returned at least one document.
HybridRetrievalFound(t) ==
    /\ hybrid_search
    /\ ToolRan(t)
    /\ tool_ret[t].raw_scores # <<>>

\* C29: with hybrid ranking enabled and the default weights (0.7 / 0.3),
\* whenever the retrieve tool finds at least one document the largest final
\* similarity_score is at least 0.7, and exactly 1.0 for a single document,
\* whatever the raw vector similarities were; with the default threshold
\* 0.6 the LowSimilarity outcome does not occur on that path.
C29_HybridTopScore ==
    \A t \in Tasks :
        HybridRetrievalFound(t) =>
            /\ tool_ret[t].metadata.similarity_scores # <<>>
            /\ SeqMax(tool_ret[t].metadata.similarity_scores) >= 700
            /\ tool_ret[t].metadata.max_similarity_score >= 700
            /\ Len(tool_ret[t].raw_scores) = 1 =>
                   tool_ret[t].metadata.similarity_scores = <<One>>
            /\ Outcome(t) = "documents"

\* A single document whose raw similarity 0.5 is below the threshold ends
\* with score 1.0 and is passed on.
C29_Witness ==
    \E t \in Tasks :
        /\ HybridRetrievalFound(t)
        /\ tool_ret[t].raw_scores = <<500>>
        /\ tool_ret[t].metadata.similarity_scores = <<One>>
        /\ Outcome(t) = "documents"

\* Two documents with raw similarities below the threshold.
C29_WitnessTwo ==
    \E t \in Tasks :
        /\ HybridRetrievalFound(t)
        /\ Len(tool_ret[t].raw_scores) = 2
        /\ SeqMax(tool_ret[t].raw_scores) < rag_similarity_threshold
        /\ Outcome(t) = "documents"

\* The stored history of sid is unchanged by the step, or it is the previous
\* history followed by the new exchange, cut from the front to max_messages.
KeptOrExtended(sid) ==
    \/ chat_history'[sid] = chat_history[sid]
    \/ chat_history'[sid] =
           LastMessages(chat_history[sid] \o NewExchange, max_messages)

\* C30: add_exchange never loses stored messages except by trimming the
\* oldest: for every outcome of the Redis read and write, after
\* add_exchange(s, u, a) the stored history of s is either unchanged or the
\* previous history followed by u and a, cut from the front to the
\* configured maximum.
C30_AddExchangeKeepsHistory == [][\A sid \in Sessions : KeptOrExtended(sid)]_vars

\* With a healthy Redis, or a failed write, the step keeps or extends.
C30_KeptWhenReadSucceeds ==
    [][route_response'.fault # "redis_read" => \A sid \in Sessions : KeptOrExtended(sid)]_vars

====
